---- MODULE Spec2Model ----
(***************************************************************************)
(* A model of the vs-snippets reconciliation core: the record model, the   *)
(* last-write-wins merge (extension.ts mergeFolders / mergeSnippets, and   *)
(* the two merges of LocalStorage.ts), and the canonical store with its    *)
(* backup mirror and the import / pull flows that write it.                *)
(*                                                                         *)
(* Timestamps and ids are naturals.  Record ids are Date.now().toString(), *)
(* so an id is the clock reading at creation.  A missing lastModified      *)
(* (undefined) is NoTime; JavaScript's `x || Date.now()` treats undefined  *)
(* and 0 alike, and no clock reading is 0.                                 *)
(***************************************************************************)
EXTENDS Integers, Sequences, FiniteSets, TLC

\* Bounds of the model.
MaxLen == 2     \* records per merge input, and distinct ids 1..MaxLen
MaxTime == 2    \* clock readings are 1..MaxTime, timestamps 0..MaxTime

NoTime == 0     \* lastModified undefined
Null == 0       \* parentId null
NoOrder == -1   \* order undefined
NoId == 0       \* id undefined

Ids == 1..MaxLen
Times == 1..MaxTime
Stamps == 0..MaxTime

(***************************************************************************)
(* Record model (storage/types.ts).  A folder's type is "primary" or       *)
(* "secondary"; "none" stands for a folder object without the key (the     *)
(* readers of the backup format strip it).                                 *)
(***************************************************************************)
Folder(id, name, parentId, type, order, lastModified) ==
    [id |-> id, name |-> name, parentId |-> parentId, type |-> type,
     order |-> order, lastModified |-> lastModified]

Snippet(id, name, folderId, code, language, notes, tags, lastModified) ==
    [id |-> id, name |-> name, folderId |-> folderId, code |-> code,
     language |-> language, notes |-> notes, tags |-> tags,
     lastModified |-> lastModified]

(***************************************************************************)
(* JavaScript Map keyed by record id, kept as the sequence of its values   *)
(* in insertion order: set() on a present key overwrites in place.         *)
(***************************************************************************)
mapHas(m, id) == \E i \in 1..Len(m) : m[i].id = id

mapGet(m, id) == m[CHOOSE i \in 1..Len(m) : m[i].id = id]

mapSetNoInsert(m, rec) ==
    [i \in 1..Len(m) |-> IF m[i].id = rec.id THEN rec ELSE m[i]]

mapSet(m, rec) ==
    IF mapHas(m, rec.id)
    THEN [i \in 1..Len(m) |-> IF m[i].id = rec.id THEN rec ELSE m[i]]
    ELSE Append(m, rec)

\* `lastModified || Date.now()` with the clock reading t.
orNowAlways(lastModified, t) == t

orNow(lastModified, t) == IF lastModified = NoTime THEN t ELSE lastModified

stamp(rec, t) == [rec EXCEPT !.lastModified = orNow(@, t)]

\* `newFolder.lastModified > existingFolder.lastModified`
isNewerOrEqual(incoming, existing) == incoming.lastModified >= existing.lastModified

isNewer(incoming, existing) == incoming.lastModified > existing.lastModified

\* JavaScript's a > b on two lastModified values either of which may be
\* undefined: undefined converts to NaN and every comparison with NaN is false.
jsGreater(a, b) == a # NoTime /\ b # NoTime /\ a > b

(***************************************************************************)
(* mergeFolders / mergeSnippets (extension.ts).  The first pass seeds the  *)
(* map with the existing records, each stamped at the reading tE if it has *)
(* no lastModified; the second pass stamps each incoming record at the     *)
(* reading tN (tE <= tN, the clock may advance between the passes) and     *)
(* sets it when the id is absent or the incoming record is strictly newer. *)
(***************************************************************************)
RECURSIVE seedExisting(_, _, _)
seedExisting(existing, tE, k) ==
    IF k = 0 THEN <<>>
    ELSE mapSet(seedExisting(existing, tE, k - 1), stamp(existing[k], tE))

RECURSIVE mergeIn(_, _, _, _)
mergeIn(m0, new, tN, k) ==
    IF k = 0 THEN m0
    ELSE LET m == mergeIn(m0, new, tN, k - 1)
             newRec == stamp(new[k], tN)
         IN  IF ~mapHas(m, newRec.id) \/ isNewer(newRec, mapGet(m, newRec.id))
             THEN mapSet(m, newRec)
             ELSE m

mergeFolders(existing, newFolders, tE, tN) ==
    mergeIn(seedExisting(existing, tE, Len(existing)), newFolders, tN, Len(newFolders))

mergeSnippets(existing, newSnippets, tE, tN) ==
    mergeIn(seedExisting(existing, tE, Len(existing)), newSnippets, tN, Len(newSnippets))

(***************************************************************************)
(* The merge inside LocalStorage.importData.  The validation loops have    *)
(* already stamped every imported record lacking a lastModified (reading   *)
(* tV); the existing records are stamped afterwards (reading tE >= tV).    *)
(***************************************************************************)
RECURSIVE importIn(_, _, _)
importIn(m0, imported, k) ==
    IF k = 0 THEN m0
    ELSE LET m == importIn(m0, imported, k - 1)
             rec == imported[k]
         IN  IF ~mapHas(m, rec.id) \/ isNewer(rec, mapGet(m, rec.id))
             THEN mapSet(m, rec)
             ELSE m

importDataMerge(existing, imported, tV, tE) ==
    importIn(seedExisting(existing, tE, Len(existing)),
             [i \in 1..Len(imported) |-> stamp(imported[i], tV)],
             Len(imported))

(***************************************************************************)
(* LocalStorage.syncFromBackup: one map over folders and snippets alike,   *)
(* keyed by id; a backup item is set when the id is not in the current     *)
(* items or `item.lastModified > current.lastModified` (no default for a   *)
(* missing lastModified); the merged items are then split by `'type' in    *)
(* item`, and a folder loses its type key.                                 *)
(***************************************************************************)
RECURSIVE rawMap(_, _)
rawMap(items, k) ==
    IF k = 0 THEN <<>> ELSE mapSet(rawMap(items, k - 1), items[k])

RECURSIVE backupIn(_, _, _, _)
backupIn(currentItems, merged0, backup, k) ==
    IF k = 0 THEN merged0
    ELSE LET m == backupIn(currentItems, merged0, backup, k - 1)
             item == backup[k]
         IN  IF ~mapHas(currentItems, item.id)
                \/ jsGreater(item.lastModified, mapGet(currentItems, item.id).lastModified)
             THEN mapSet(m, item)
             ELSE m

hasType(item) == "type" \in DOMAIN item /\ item.type # "none"

syncFromBackupMerge(curFolders, curSnippets, bakFolders, bakSnippets) ==
    LET current == curFolders \o curSnippets
        backup == bakFolders \o bakSnippets
        currentItems == rawMap(current, Len(current))
        mergedItems == backupIn(currentItems, currentItems, backup, Len(backup))
        typed == SelectSeq(mergedItems, hasType)
    IN  [folders |-> [i \in 1..Len(typed) |-> [typed[i] EXCEPT !.type = "none"]],
         snippets |-> SelectSeq(mergedItems, LAMBDA item : ~hasType(item))]

idsOfSeq(s) == {s[i].id : i \in 1..Len(s)}

\* The first index holding the id (find / findIndex).
isFirst(s, id, i) == s[i].id = id /\ \A j \in 1..(i - 1) : s[j].id # id

(***************************************************************************)
(* The canonical store (storage/LocalStorage.ts): folders.json and         *)
(* snippets.json, each read and rewritten whole.  An operator below takes  *)
(* the collections read and the clock reading t of the handler and gives   *)
(* the collections written.  Undef is a string field that is undefined,    *)
(* NoTags a tags field that is no array.                                   *)
(***************************************************************************)
Undef == "<undefined>"

NoTags == {"<undefined>"}

\* `value || fallback` on a string field.
orDefault(value, fallback) == IF value \in {Undef, ""} THEN fallback ELSE value

\* The field defaults of getSnippetsData / saveSnippetsData.
\* A property read from an object that may lack it.
fieldOr(rec, field, undefined) == IF field \in DOMAIN rec THEN rec[field] ELSE undefined

sanitizeSnippet(s, t) ==
    Snippet(s.id, s.name, fieldOr(s, "folderId", Null),
            orDefault(fieldOr(s, "code", Undef), ""),
            orDefault(fieldOr(s, "language", Undef), "plaintext"),
            orDefault(fieldOr(s, "notes", Undef), ""),
            IF fieldOr(s, "tags", NoTags) = NoTags THEN {} ELSE s.tags,
            orNow(s.lastModified, t))

saveSnippetsData(snips, t) == [i \in 1..Len(snips) |-> sanitizeSnippet(snips[i], t)]

\* The `data` array updateBackupFile writes: the folders (id, name, parentId,
\* type 'folder', lastModified; no order) followed by the snippets.
backupFolderItem(f, t) ==
    Folder(f.id, f.name, f.parentId, "folder", NoOrder, orNow(f.lastModified, t))

backupDataFoldersOnly(fs, snips, t) == [i \in 1..Len(fs) |-> backupFolderItem(fs[i], t)]

backupData(fs, snips, t) ==
    [i \in 1..Len(fs) |-> backupFolderItem(fs[i], t)]
        \o [i \in 1..Len(snips) |-> sanitizeSnippet(snips[i], t)]

\* `f.order || 0`
orderKey(f) == IF f.order = NoOrder THEN 0 ELSE f.order

maxOf(S) == CHOOSE x \in S : \A y \in S : y <= x

indexOf(s, id) ==
    IF mapHas(s, id) THEN CHOOSE i \in 1..Len(s) : isFirst(s, id, i) ELSE 0

addFolder(fs, name, parentId, t) ==
    LET siblings == {i \in 1..Len(fs) : fs[i].parentId = parentId}
        maxOrder == maxOf({orderKey(fs[i]) : i \in siblings} \cup {-1})
    IN  Append(fs, Folder(t, name, parentId, "primary", maxOrder + 1, t))

addSnippet(snips, name, folderId, t) ==
    Append(snips, Snippet(t, name, folderId, "", "plaintext", "", {}, t))

deleteFolderFolders(fs, id) == SelectSeq(fs, LAMBDA f : f.id # id)

deleteFolderSnippetsKeepAll(snips, id) == snips

deleteFolderSnippets(snips, id) == SelectSeq(snips, LAMBDA sn : sn.folderId # id)

deleteSnippet(snips, id) == SelectSeq(snips, LAMBDA sn : sn.id # id)

\* `update.field !== undefined ? update.field : currentSnippet.field`
pick(updated, current) == IF updated = Undef THEN current ELSE updated

updateSnippet(snips, update, t) ==
    LET i == indexOf(snips, update.id)
        cur == snips[i]
    IN  [snips EXCEPT ![i] =
            [cur EXCEPT !.code = pick(update.code, cur.code),
                        !.notes = pick(update.notes, cur.notes),
                        !.language = pick(update.language, cur.language),
                        !.tags = IF update.tags = NoTags THEN cur.tags ELSE update.tags,
                        !.folderId = IF update.folderId = Null THEN cur.folderId
                                     ELSE update.folderId,
                        !.lastModified = t]]

renameFolder(fs, id, newName, t) ==
    [fs EXCEPT ![indexOf(fs, id)] = [@ EXCEPT !.name = newName, !.lastModified = t]]

renameSnippet(snips, id, newName, t) ==
    [snips EXCEPT ![indexOf(snips, id)] = [@ EXCEPT !.name = newName, !.lastModified = t]]

updateFolderParent(fs, id, newParentId, t) ==
    [i \in 1..Len(fs) |->
        IF fs[i].id = id
        THEN [fs[i] EXCEPT !.parentId = newParentId, !.lastModified = t]
        ELSE fs[i]]

\* targetPath '' (here Null) moves to the root.
moveFolder(fs, sourcePath, targetPath, t) ==
    [fs EXCEPT ![indexOf(fs, sourcePath)] =
        [@ EXCEPT !.parentId = targetPath, !.lastModified = t]]

(***************************************************************************)
(* updateFolderOrder: the siblings (same parentId) sorted by `order || 0`  *)
(* (Array.prototype.sort is stable), the folder swapped with its neighbour *)
(* in that order.  Siblings are held as indices into the folders array,    *)
(* as the code holds references to its objects.                            *)
(***************************************************************************)
OrderStep == 100

insertByOrder(fs, sorted, x) ==
    LET p == Cardinality({j \in 1..Len(sorted) : orderKey(fs[sorted[j]]) <= orderKey(fs[x])})
    IN  SubSeq(sorted, 1, p) \o <<x>> \o SubSeq(sorted, p + 1, Len(sorted))

RECURSIVE sortByOrder(_, _, _)
sortByOrder(fs, idxs, k) ==
    IF k = 0 THEN <<>> ELSE insertByOrder(fs, sortByOrder(fs, idxs, k - 1), idxs[k])

siblingsOf(fs, parentId) ==
    LET idxs == SelectSeq([i \in 1..Len(fs) |-> i], LAMBDA i : fs[i].parentId = parentId)
    IN  sortByOrder(fs, idxs, Len(idxs))

currentIndex(fs, folderId) ==
    LET sib == siblingsOf(fs, fs[indexOf(fs, folderId)].parentId)
    IN  CHOOSE p \in 1..Len(sib) :
            /\ fs[sib[p]].id = folderId
            /\ \A q \in 1..(p - 1) : fs[sib[q]].id # folderId

targetIndex(fs, folderId, direction) ==
    IF direction = "up" THEN currentIndex(fs, folderId) - 1
    ELSE currentIndex(fs, folderId) + 1

\* FALSE on the early return `Can't move further`.
canMove(fs, folderId, direction) ==
    LET sib == siblingsOf(fs, fs[indexOf(fs, folderId)].parentId)
    IN  targetIndex(fs, folderId, direction) \in 1..Len(sib)

updateFolderOrder(fs, folderId, direction) ==
    LET cur == indexOf(fs, folderId)
        sib == siblingsOf(fs, fs[cur].parentId)
        tgt == sib[targetIndex(fs, folderId, direction)]
        pos(i) == CHOOSE p \in 1..Len(sib) : sib[p] = i
        fs1 == IF fs[cur].order = NoOrder
               THEN [i \in 1..Len(fs) |->
                        IF \E p \in 1..Len(sib) : sib[p] = i
                        THEN [fs[i] EXCEPT !.order = (pos(i) - 1) * OrderStep]
                        ELSE fs[i]]
               ELSE fs
        fs2 == [i \in 1..Len(fs) |->
                   IF i = tgt THEN [fs1[i] EXCEPT !.order = fs1[cur].order]
                   ELSE IF i = cur THEN [fs1[i] EXCEPT !.order = fs1[tgt].order]
                   ELSE fs1[i]]
    IN  [i \in 1..Len(fs) |->
            IF fs2[i].id = fs2[cur].id THEN [fs2[i] EXCEPT !.order = fs2[cur].order]
            ELSE IF fs2[i].id = fs2[tgt].id THEN [fs2[i] EXCEPT !.order = fs2[tgt].order]
            ELSE fs2[i]]

(***************************************************************************)
(* Files read by the import and pull flows.  A file is its shape (the      *)
(* versioned envelope {version: "1.0", data: [...]}, a bare array, or      *)
(* anything else) and its flat array of items; a folder item carries       *)
(* type 'folder'.                                                          *)
(***************************************************************************)
isFolderItem(item) == "type" \in DOMAIN item /\ item.type = "folder"

stripType(item) == [item EXCEPT !.type = "none"]

foldersIn(data) ==
    LET fs == SelectSeq(data, isFolderItem)
    IN  [i \in 1..Len(fs) |-> stripType(fs[i])]

\* snippets.importSnippets: only a bare array is read; an item that is no
\* folder is a snippet when its folderId is truthy.
importParse(file) ==
    IF file.shape = "array"
    THEN [folders |-> foldersIn(file.data),
          snippets |-> SelectSeq(file.data, LAMBDA item :
                          ~isFolderItem(item) /\ "folderId" \in DOMAIN item
                          /\ item.folderId # Null)]
    ELSE [folders |-> <<>>, snippets |-> <<>>]

\* autoSyncFromBackup: only the versioned envelope is read.
autoSyncParse(file) ==
    IF file.shape = "envelope"
    THEN [folders |-> foldersIn(file.data),
          snippets |-> SelectSeq(file.data, LAMBDA item : ~isFolderItem(item))]
    ELSE [folders |-> <<>>, snippets |-> <<>>]

\* getBackupData: any file with a `data` array is read, whatever its version;
\* a folder item loses its `type`.
getBackupData(file) ==
    IF file.shape = "envelope"
    THEN [folders |-> foldersIn(file.data),
          snippets |-> SelectSeq(file.data, LAMBDA item : ~isFolderItem(item))]
    ELSE [folders |-> <<>>, snippets |-> <<>>]

\* snippets.syncFromBackup: the versioned envelope, each folder rebuilt from
\* id, name, parentId and lastModified, each snippet with the field defaults
\* but its lastModified as in the file.
syncCommandParse(file) ==
    IF file.shape = "envelope"
    THEN LET fs == SelectSeq(file.data, isFolderItem)
             sn == SelectSeq(file.data, LAMBDA item : ~isFolderItem(item))
         IN  [folders |-> [i \in 1..Len(fs) |->
                              Folder(fs[i].id, fs[i].name, fs[i].parentId, "none",
                                     NoOrder, fs[i].lastModified)],
              snippets |-> [i \in 1..Len(sn) |->
                              [sanitizeSnippet(sn[i], NoTime) EXCEPT
                                  !.lastModified = sn[i].lastModified]]]
    ELSE [folders |-> <<>>, snippets |-> <<>>]

(***************************************************************************)
(* State.  The m* variables hold one application of a merge to inputs      *)
(* drawn from bounded sets: the two inputs (as id / lastModified cores),   *)
(* two successive clock readings, the merge applied and its result.        *)
(***************************************************************************)
VARIABLES mLocal, mIncoming, mT1, mT2, mOp, mResult

(***************************************************************************)
(* The store and its surroundings: the two collection files, the backup    *)
(* mirror file with its mtime, the 'vssnippets.lastSync' reading, the      *)
(* clock, the number of handlers run, and for the claims the last handler  *)
(* run (last) with the files it found (pre).                               *)
(***************************************************************************)
VARIABLES folders, snippets, backup, mtime, lastSync, now, ops, last, pre

(***************************************************************************)
(* Handlers as they really run: each `await` of a handler is a point where *)
(* another handler, or another writer of the mirror file, gets in.  procs  *)
(* holds, per running handler, its position and what it has read so far;   *)
(* events counts the watcher events not yet handled; fresh says whether     *)
(* the mirror file's mtime is later than 'vssnippets.lastSync'; mirrorBy    *)
(* is who wrote the mirror last.  For the claims: obs is what a getAllData  *)
(* returned, wholes the collections the store held between handlers'        *)
(* writes.  storage is the storage directory as initializeStorage sees it: *)
(* whether each collection file exists, the `initialized` flag, and where   *)
(* the constructor's initializeStorage and a first store operation are.     *)
(***************************************************************************)
VARIABLES procs, events, fresh, mirrorBy, obs, wholes, storage

raceVars == <<procs, events, fresh, mirrorBy, obs, wholes, storage>>

(***************************************************************************)
(* The remote side (GistStorage): the documents the remote holds, the id   *)
(* mapping kept in the settings (`snippets.gistMapping`), how many         *)
(* documents the remote has created so far (it names a new document by a   *)
(* fresh id), and what the last call did: its requests and their answers,  *)
(* the error it threw, what load returned, the state it started from.      *)
(***************************************************************************)
VARIABLES docs, gistMapping, made, glast, gops, runs

\* runs: the sync calls in flight, each at one of its awaits.

gistVars == <<docs, gistMapping, made, glast, gops, runs>>

(***************************************************************************)
(* The sidebar (SnippetTreeDataProvider): the search query, the provider's *)
(* cached folders and snippets, its isLoading flag, the loadData calls in  *)
(* flight, the chain of folders opened from the root, and what the last    *)
(* call on the provider was and returned.                                  *)
(***************************************************************************)
VARIABLES searchQuery, treeFolders, treeSnippets, isLoading, loads, path, shown, vop

viewVars == <<searchQuery, treeFolders, treeSnippets, isLoading, loads, path, shown, vop>>

mergeVars == <<mLocal, mIncoming, mT1, mT2, mOp, mResult>>

storeVars == <<folders, snippets, backup, mtime, lastSync, now, ops, last, pre>>

vars == <<mLocal, mIncoming, mT1, mT2, mOp, mResult,
          folders, snippets, backup, mtime, lastSync, now, ops, last, pre,
          procs, events, fresh, mirrorBy, obs, wholes, storage,
          docs, gistMapping, made, glast, gops, runs,
          searchQuery, treeFolders, treeSnippets, isLoading, loads, path, shown, vop>>

Cores == [id : Ids, lastModified : Stamps]

distinctIds(s) == \A i, j \in 1..Len(s) : i # j => s[i].id # s[j].id

\* The local collection holds the ids 1..k in order (ids are interchangeable).
LocalInputs ==
    UNION {{[i \in 1..k |-> [id |-> i, lastModified |-> f[i]]] : f \in [1..k -> Stamps]}
           : k \in 0..MaxLen}

IncomingInputs ==
    {s \in UNION {[1..k -> Cores] : k \in 0..MaxLen} : distinctIds(s)}

\* A folder as addFolder writes it, and a folder as read from a backup file.
localFolder(c) == Folder(c.id, "a", Null, "primary", 0, c.lastModified)

incomingFolder(c) == Folder(c.id, "b", Null, "none", NoOrder, c.lastModified)

localSnippet(c) == Snippet(c.id, "a", 1, "", "plaintext", "", {}, c.lastModified)

incomingSnippet(c) == Snippet(c.id, "b", 1, "x", "plaintext", "", {}, c.lastModified)

localFolders == [i \in 1..Len(mLocal) |-> localFolder(mLocal[i])]

incomingFolders == [i \in 1..Len(mIncoming) |-> incomingFolder(mIncoming[i])]

localSnippets == [i \in 1..Len(mLocal) |-> localSnippet(mLocal[i])]

incomingSnippets == [i \in 1..Len(mIncoming) |-> incomingSnippet(mIncoming[i])]

MaxDocs == 3    \* documents the remote creates in one behaviour

NoDoc == 0      \* gistMapping[snippetId] undefined

DocIds == 1..MaxDocs

noGist ==
    [op |-> "none", local |-> {}, id |-> 0, fault |-> [kind |-> "none", at |-> 0],
     log |-> <<>>, error |-> "none", loaded |-> {},
     pre |-> [docs |-> [d \in DocIds |-> "absent"], gistMapping |-> [s \in Ids |-> NoDoc]]]

\* The remote part of the state while the store or the merges run: nothing
\* pushed yet.
Loaders == {"load1", "load2"}

idleLoad == [pc |-> "idle", fs |-> <<>>, sn |-> <<>>]

ViewIdle ==
    /\ searchQuery = <<>>
    /\ treeFolders = <<>>
    /\ treeSnippets = <<>>
    /\ isLoading = FALSE
    /\ loads = [p \in Loaders |-> idleLoad]
    /\ path = <<>>
    /\ shown = <<>>
    /\ vop = "none"

Runs == {"sync1", "sync2"}

idleRun == [pc |-> "idle", k |-> 0, id |-> 0]

GistIdle ==
    /\ runs = [p \in Runs |-> idleRun]
    /\ docs = [d \in DocIds |-> "absent"]
    /\ gistMapping = [s \in Ids |-> NoDoc]
    /\ made = 0
    /\ glast = noGist
    /\ gops = 0

\* What `last` holds before any handler has run.
noLast ==
    [op |-> "none", id |-> 0, t |-> 0, inFolders |-> {}, inSnippets |-> {},
     fault |-> "none", threw |-> FALSE]

Procs == {"user", "absorb1", "absorb2", "reader"}

Absorbers == {"absorb1", "absorb2"}

\* A handler that is not running.
idleProc ==
    [pc |-> "idle", fs |-> <<>>, sn |-> <<>>, bak |-> [shape |-> "absent", data |-> <<>>],
     self |-> FALSE, after |-> FALSE]

\* The handler part of the state while handlers are taken as single steps.
\* The storage directory once initialization is over.
readyStorage ==
    [initialized |-> TRUE, foldersFile |-> TRUE, snippetsFile |-> TRUE,
     ctor |-> "done", op |-> "idle", kind |-> "none", fs |-> <<>>, sn |-> <<>>,
     wrote |-> {}]

RaceIdle ==
    /\ storage = readyStorage
    /\ procs = [p \in Procs |-> idleProc]
    /\ events = 0
    /\ fresh = FALSE
    /\ mirrorBy = "store"
    /\ obs = [folders |-> <<>>, snippets |-> <<>>]
    /\ wholes = {}

\* The store part of the state while only merges are applied.
StoreIdle ==
    /\ folders = <<>>
    /\ snippets = <<>>
    /\ backup = [shape |-> "absent", data |-> <<>>]
    /\ mtime = 0
    /\ lastSync = 0
    /\ now = 1
    /\ ops = 0
    /\ last = noLast
    /\ pre = [folders |-> <<>>, snippets |-> <<>>,
              backup |-> [shape |-> "absent", data |-> <<>>]]

\* The merge part of the state while the store runs.
MergeIdle ==
    /\ mLocal = <<>>
    /\ mIncoming = <<>>
    /\ mT1 = 1
    /\ mT2 = 1
    /\ mOp = "idle"
    /\ mResult = <<>>

MergeInit ==
    /\ mLocal \in LocalInputs
    /\ mIncoming \in IncomingInputs
    /\ mT1 \in Times
    /\ mT2 \in Times
    /\ mT1 <= mT2
    /\ mOp = "init"
    /\ mResult = <<>>
    /\ StoreIdle
    /\ RaceIdle
    /\ GistIdle
    /\ ViewIdle

MergeFolders ==
    /\ mOp = "init"
    /\ mOp' = "mergeFolders"
    /\ mResult' = mergeFolders(localFolders, incomingFolders, mT1, mT2)
    /\ UNCHANGED <<mLocal, mIncoming, mT1, mT2, storeVars, raceVars, gistVars, viewVars>>

MergeSnippets ==
    /\ mOp = "init"
    /\ mOp' = "mergeSnippets"
    /\ mResult' = mergeSnippets(localSnippets, incomingSnippets, mT1, mT2)
    /\ UNCHANGED <<mLocal, mIncoming, mT1, mT2, storeVars, raceVars, gistVars, viewVars>>

ImportDataFolders ==
    /\ mOp = "init"
    /\ mOp' = "importFolders"
    /\ mResult' = importDataMerge(localFolders, incomingFolders, mT1, mT2)
    /\ UNCHANGED <<mLocal, mIncoming, mT1, mT2, storeVars, raceVars, gistVars, viewVars>>

ImportDataSnippets ==
    /\ mOp = "init"
    /\ mOp' = "importSnippets"
    /\ mResult' = importDataMerge(localSnippets, incomingSnippets, mT1, mT2)
    /\ UNCHANGED <<mLocal, mIncoming, mT1, mT2, storeVars, raceVars, gistVars, viewVars>>

SyncFromBackupItems ==
    /\ mOp = "init"
    /\ mOp' = "syncFromBackup"
    /\ mResult' = LET r == syncFromBackupMerge(localFolders, <<>>, incomingFolders, <<>>)
                  IN  r.folders \o r.snippets
    /\ UNCHANGED <<mLocal, mIncoming, mT1, mT2, storeVars, raceVars, gistVars, viewVars>>

MergeFoldersSelf ==
    /\ mOp = "init"
    /\ mOp' = "selfFolders"
    /\ mResult' = mergeFolders(localFolders, localFolders, mT1, mT2)
    /\ UNCHANGED <<mLocal, mIncoming, mT1, mT2, storeVars, raceVars, gistVars, viewVars>>

MergeSnippetsSelf ==
    /\ mOp = "init"
    /\ mOp' = "selfSnippets"
    /\ mResult' = mergeSnippets(localSnippets, localSnippets, mT1, mT2)
    /\ UNCHANGED <<mLocal, mIncoming, mT1, mT2, storeVars, raceVars, gistVars, viewVars>>

MergeNext ==
    \/ MergeFolders
    \/ MergeSnippets
    \/ ImportDataFolders
    \/ ImportDataSnippets
    \/ SyncFromBackupItems
    \/ MergeFoldersSelf
    \/ MergeSnippetsSelf

MergeSpec == MergeInit /\ [][MergeNext]_vars

(***************************************************************************)
(* The store specification.  A handler runs to completion within one clock *)
(* reading (now); Tick is time passing between handlers.  The store starts *)
(* from collection files an earlier session left (the constructor keeps    *)
(* existing files), mirrored and absorbed.                                 *)
(***************************************************************************)
MaxClock == 5   \* the clock runs to MaxClock
MaxOps == 2     \* handlers run in one behaviour

seedFolder1 == Folder(1, "a", Null, "primary", 0, 1)

seedFolder2 == Folder(2, "a", Null, "primary", 1, 2)

seedSnippet == Snippet(3, "a", 1, "", "plaintext", "", {}, 3)

\* A folder of a folders.json written before folders carried lastModified and
\* order.
legacyFolder == Folder(2, "a", Null, "primary", NoOrder, NoTime)

InitStores ==
    {[folders |-> <<>>, snippets |-> <<>>],
     [folders |-> <<seedFolder1>>, snippets |-> <<seedSnippet>>],
     [folders |-> <<seedFolder1, seedFolder2>>, snippets |-> <<seedSnippet>>],
     [folders |-> <<seedFolder1, legacyFolder>>, snippets |-> <<seedSnippet>>]}

\* Items of files written elsewhere (another machine, an older export).
extFolder(id, lastModified) == Folder(id, "x", Null, "folder", NoOrder, lastModified)

extSnippet(id, folderId, lastModified) ==
    Snippet(id, "x", folderId, "y", "plaintext", "", {}, lastModified)

FileContents ==
    {<<>>, <<extFolder(6, 1), extSnippet(7, 6, 1)>>, <<extSnippet(7, 6, 1)>>,
     <<extSnippet(NoId, 1, 1)>>}
        \cup {<<extFolder(1, t), extSnippet(3, 1, t)>> : t \in {NoTime, 1, MaxClock}}

Files ==
    {[shape |-> sh, data |-> d] : sh \in {"envelope", "array"}, d \in FileContents}
        \cup {[shape |-> "object", data |-> <<extFolder(6, 1), extSnippet(7, 6, 1)>>]}

\* What the mirror file can hold after another writer: an envelope, some other
\* JSON value, or text that is no JSON.
MirrorFiles ==
    {[shape |-> "envelope", data |-> <<extFolder(6, 1), extSnippet(7, 6, 1)>>],
     [shape |-> "envelope", data |-> <<extFolder(1, MaxClock), extSnippet(3, 1, MaxClock)>>],
     [shape |-> "envelope", data |-> <<extSnippet(NoId, 1, 1)>>],
     [shape |-> "object", data |-> <<extFolder(6, 1), extSnippet(7, 6, 1)>>],
     [shape |-> "junk", data |-> <<>>]}

\* The files handed to LocalStorage.importData:
\* {version, data: {folders, snippets}}.
ImportDataFiles ==
    {[folders |-> <<Folder(6, "x", Null, "primary", NoOrder, 1)>>,
      snippets |-> <<extSnippet(7, 6, 1)>>],
     [folders |-> <<Folder(6, "x", Null, "primary", NoOrder, 1)>>,
      snippets |-> <<extSnippet(7, 6, 1), extSnippet(NoId, 6, 1)>>],
     [folders |-> <<Folder(NoId, "x", Null, "primary", NoOrder, 1)>>, snippets |-> <<>>]}

\* What pullFromGist returns: no lastModified, no order, no tags.
GistData ==
    {[folders |-> <<>>, snippets |-> <<>>],
     [folders |-> <<Folder(1, "x", Null, "primary", NoOrder, NoTime)>>,
      snippets |-> <<Snippet(3, "x", 1, "y", "plaintext", "", NoTags, NoTime)>>]}

\* The update payloads of the editor (code; notes, language and tags) and of a
\* drag and drop onto folder g.
noUpdate(id) ==
    [id |-> id, code |-> Undef, notes |-> Undef, language |-> Undef,
     tags |-> NoTags, folderId |-> Null]

Updates(id) ==
    {[noUpdate(id) EXCEPT !.code = "x"],
     [noUpdate(id) EXCEPT !.notes = "n", !.language = "js", !.tags = {"t"}]}
        \cup {[noUpdate(id) EXCEPT !.folderId = g] : g \in idsOfSeq(folders)}

mirror(fs, snips) == [shape |-> "envelope", data |-> backupData(fs, snips, now)]

Last(op, id, inFolders, inSnippets) ==
    [op |-> op, id |-> id, t |-> now, inFolders |-> inFolders, inSnippets |-> inSnippets,
     fault |-> "none", threw |-> FALSE]

\* The bookkeeping common to every handler; a behaviour runs MaxOps handlers.
ran(op, id, inFolders, inSnippets) ==
    /\ ops' = ops + 1
    /\ last' = Last(op, id, inFolders, inSnippets)
    /\ pre' = [folders |-> folders, snippets |-> snippets, backup |-> backup]
    /\ UNCHANGED <<now, mergeVars, raceVars, gistVars, viewVars>>

Init ==
    /\ \E st \in InitStores :
          /\ folders = st.folders
          /\ snippets = st.snippets
          /\ backup = [shape |-> "envelope", data |-> backupData(st.folders, st.snippets, 3)]
          /\ pre = [folders |-> st.folders, snippets |-> st.snippets, backup |-> backup]
    /\ mtime = 3
    /\ lastSync = 3
    /\ now = 4
    /\ ops = 0
    /\ last = noLast
    /\ MergeIdle
    /\ RaceIdle
    /\ GistIdle
    /\ ViewIdle

Tick ==
    /\ now < MaxClock
    /\ now' = now + 1
    /\ UNCHANGED <<folders, snippets, backup, mtime, lastSync, ops, last, pre, mergeVars,
                   raceVars, gistVars, viewVars>>

AddFolder ==
    /\ ops < MaxOps
    /\ \E parentId \in {Null} \cup idsOfSeq(folders) :
           /\ Len(folders) < MaxLen + 1
           /\ folders' = addFolder(folders, "a", parentId, now)
           /\ backup' = mirror(folders', snippets)
           /\ mtime' = now
           /\ ran("addFolder", now, {}, {})
           /\ UNCHANGED <<snippets, lastSync>>

AddSnippet ==
    /\ ops < MaxOps
    /\ \E folderId \in idsOfSeq(folders) :
           /\ Len(snippets) < MaxLen
           /\ snippets' = saveSnippetsData(addSnippet(snippets, "a", folderId, now), now)
           /\ backup' = mirror(folders, addSnippet(snippets, "a", folderId, now))
           /\ mtime' = now
           /\ ran("addSnippet", now, {}, {})
           /\ UNCHANGED <<folders, lastSync>>

DeleteFolder ==
    /\ ops < MaxOps
    /\ \E id \in idsOfSeq(folders) :
           /\ folders' = deleteFolderFolders(folders, id)
           /\ snippets' = saveSnippetsData(deleteFolderSnippets(snippets, id), now)
           /\ backup' = mirror(deleteFolderFolders(folders, id), deleteFolderSnippets(snippets, id))
           /\ mtime' = now
           /\ ran("deleteFolder", id, {}, {})
           /\ UNCHANGED lastSync

DeleteSnippet ==
    /\ ops < MaxOps
    /\ \E id \in idsOfSeq(snippets) :
           /\ snippets' = saveSnippetsData(deleteSnippet(snippets, id), now)
           /\ backup' = mirror(folders, deleteSnippet(snippets, id))
           /\ mtime' = now
           /\ ran("deleteSnippet", id, {}, {})
           /\ UNCHANGED <<folders, lastSync>>

UpdateSnippet ==
    /\ ops < MaxOps
    /\ \E id \in idsOfSeq(snippets) : \E update \in Updates(id) :
           \* handleDrop returns when the target is the snippet's folder already
           /\ update.folderId # mapGet(snippets, id).folderId
           /\ snippets' = saveSnippetsData(updateSnippet(snippets, update, now), now)
           /\ backup' = mirror(folders, updateSnippet(snippets, update, now))
           /\ mtime' = now
           /\ ran("updateSnippet", id, {}, {})
           /\ UNCHANGED <<folders, lastSync>>

RenameFolder ==
    /\ ops < MaxOps
    /\ \E id \in idsOfSeq(folders) :
           /\ folders' = renameFolder(folders, id, "b", now)
           /\ backup' = mirror(folders', snippets)
           /\ mtime' = now
           /\ ran("renameFolder", id, {}, {})
           /\ UNCHANGED <<snippets, lastSync>>

RenameSnippet ==
    /\ ops < MaxOps
    /\ \E id \in idsOfSeq(snippets) :
           /\ snippets' = saveSnippetsData(renameSnippet(snippets, id, "b", now), now)
           /\ backup' = mirror(folders, renameSnippet(snippets, id, "b", now))
           /\ mtime' = now
           /\ ran("renameSnippet", id, {}, {})
           /\ UNCHANGED <<folders, lastSync>>

UpdateFolderParent ==
    /\ ops < MaxOps
    /\ \E id \in idsOfSeq(folders) : \E newParentId \in {Null} \cup idsOfSeq(folders) :
           /\ folders' = updateFolderParent(folders, id, newParentId, now)
           /\ backup' = mirror(folders', snippets)
           /\ mtime' = now
           /\ ran("updateFolderParent", id, {}, {})
           /\ UNCHANGED <<snippets, lastSync>>

\* snippets.moveToRoot is the caller: moveFolder(folderId, '').
MoveFolder ==
    /\ ops < MaxOps
    /\ \E id \in idsOfSeq(folders) :
           /\ folders' = moveFolder(folders, id, Null, now)
           /\ snippets' = saveSnippetsData(snippets, now)
           /\ backup' = mirror(folders', snippets)
           /\ mtime' = now
           /\ ran("moveFolder", id, {}, {})
           /\ UNCHANGED lastSync

UpdateFolderOrder ==
    /\ ops < MaxOps
    /\ \E id \in idsOfSeq(folders) : \E direction \in {"up", "down"} :
           /\ IF canMove(folders, id, direction)
              THEN /\ folders' = updateFolderOrder(folders, id, direction)
                   /\ backup' = mirror(folders', snippets)
                   /\ mtime' = now
                   /\ ran("updateFolderOrder", id, {}, {})
              ELSE /\ ran("updateFolderOrderNoMove", id, {}, {})
                   /\ UNCHANGED <<folders, backup, mtime>>
           /\ UNCHANGED <<snippets, lastSync>>

\* syncData(data): both collection files, then the mirror.
syncData(data) ==
    /\ folders' = data.folders
    /\ snippets' = saveSnippetsData(data.snippets, now)
    /\ backup' = mirror(data.folders, data.snippets)
    /\ mtime' = now

ImportCommand ==
    /\ ops < MaxOps
    /\ \E file \in Files :
           LET in == importParse(file)
           IN  /\ syncData([folders |-> mergeFolders(folders, in.folders, now, now),
                            snippets |-> mergeSnippets(snippets, in.snippets, now, now)])
               /\ ran("importCommand", 0, idsOfSeq(in.folders), idsOfSeq(in.snippets))
               /\ UNCHANGED lastSync

\* The registered snippets.syncFromBackup command, the user confirming 'Sync'.
SyncFromBackupCommand ==
    /\ ops < MaxOps
    /\ \E file \in Files :
           LET in == syncCommandParse(file)
           IN  /\ ~(Len(in.folders) = 0 /\ Len(in.snippets) = 0)
               /\ syncData(in)
               /\ ran("syncFromBackup", 0, idsOfSeq(in.folders), idsOfSeq(in.snippets))
               /\ UNCHANGED lastSync

\* autoSyncFromBackup past its early returns: the mirror exists and is newer
\* than the last sync; any other content than the envelope merges nothing in.
AutoSyncFromBackup ==
    /\ ops < MaxOps
    /\ LET in == autoSyncParse(backup)
       IN  /\ backup.shape # "absent"
           /\ mtime > lastSync
           /\ IF backup.shape = "junk"
              THEN \* JSON.parse throws, the catch swallows it
                   /\ ran("autoSyncThrew", 0, {}, {})
                   /\ UNCHANGED <<folders, snippets, backup, mtime, lastSync>>
              ELSE /\ syncData([folders |-> mergeFolders(folders, in.folders, now, now),
                                snippets |-> mergeSnippets(snippets, in.snippets, now, now)])
                   /\ lastSync' = now
                   /\ ran("autoSync", 0, idsOfSeq(in.folders), idsOfSeq(in.snippets))

SyncFromGist ==
    /\ ops < MaxOps
    /\ \E data \in GistData :
           /\ syncData(data)
           /\ ran("syncFromGist", 0, idsOfSeq(data.folders), idsOfSeq(data.snippets))
           /\ UNCHANGED lastSync

\* LocalStorage.syncFromBackup: getBackupData throws unless the mirror is JSON
\* with a `data` array (and returns null, which throws too, without a file).
SyncFromBackup ==
    /\ ops < MaxOps
    /\ IF backup.shape = "envelope"
       THEN LET bak == autoSyncParse(backup)
            IN  /\ syncData(syncFromBackupMerge(folders, snippets, bak.folders, bak.snippets))
                /\ ran("syncFromBackupMerge", 0, idsOfSeq(bak.folders), idsOfSeq(bak.snippets))
       ELSE /\ ran("syncFromBackupThrew", 0, {}, {})
            /\ UNCHANGED <<folders, snippets, backup, mtime>>
    /\ UNCHANGED lastSync

\* The validation loops of importData: every record needs its id (and name).
validImport(file) ==
    /\ \A i \in 1..Len(file.folders) : file.folders[i].id # NoId
    /\ \A i \in 1..Len(file.snippets) :
          file.snippets[i].id # NoId /\ file.snippets[i].folderId # Null

ImportData ==
    /\ ops < MaxOps
    /\ \E file \in ImportDataFiles :
           /\ IF validImport(file)
              THEN /\ syncData([folders |-> importDataMerge(folders, file.folders, now, now),
                                snippets |-> importDataMerge(snippets, file.snippets, now, now)])
                   /\ ran("importData", 0, idsOfSeq(file.folders), idsOfSeq(file.snippets))
              ELSE /\ ran("importDataThrew", 0, idsOfSeq(file.folders), idsOfSeq(file.snippets))
                   /\ UNCHANGED <<folders, snippets, backup, mtime>>
           /\ UNCHANGED lastSync

\* Another writer (a cloud-synced directory) replaces the mirror file.
ExternalEdit ==
    /\ ops < MaxOps
    /\ \E file \in MirrorFiles :
           /\ backup' = file
           /\ mtime' = now
           /\ ran("externalEdit", 0, {}, {})
           /\ UNCHANGED <<folders, snippets, lastSync>>

Next ==
    \/ Tick
    \/ AddFolder
    \/ AddSnippet
    \/ DeleteFolder
    \/ DeleteSnippet
    \/ UpdateSnippet
    \/ RenameFolder
    \/ RenameSnippet
    \/ UpdateFolderParent
    \/ MoveFolder
    \/ UpdateFolderOrder
    \/ ImportCommand
    \/ SyncFromBackupCommand
    \/ AutoSyncFromBackup
    \/ SyncFromGist
    \/ SyncFromBackup
    \/ ImportData
    \/ ExternalEdit

Spec == Init /\ [][Next]_vars

(***************************************************************************)
(* The interleaving specification.  The store starts with one folder and   *)
(* one snippet, mirrored and absorbed.  The user adds a snippet            *)
(* (LocalStorage.addSnippet), another writer replaces the mirror file,     *)
(* the watcher delivers its events to autoSyncFromBackup, and a reader     *)
(* calls getAllData; every file read and file write is a step of its own.  *)
(* The clock does not advance here: all that the handlers compare is       *)
(* whether the mirror is newer than the last sync (fresh).                 *)
(***************************************************************************)
racePinned == <<mtime, lastSync, now, last, pre, storage, mergeVars, gistVars, viewVars>>

\* The collection another machine left in the shared mirror file.
externalFile == [shape |-> "envelope", data |-> <<extFolder(6, 1), extSnippet(7, 6, 1)>>]

RaceInit ==
    /\ folders = <<seedFolder1>>
    /\ snippets = <<seedSnippet>>
    /\ backup = [shape |-> "envelope", data |-> backupData(folders, snippets, 3)]
    /\ mtime = 3
    /\ lastSync = 3
    /\ now = 4
    /\ ops = 0
    /\ last = noLast
    /\ pre = [folders |-> folders, snippets |-> snippets, backup |-> backup]
    /\ MergeIdle
    /\ GistIdle
    /\ ViewIdle
    /\ storage = readyStorage
    /\ procs = [p \in Procs |-> idleProc]
    /\ events = 0
    /\ fresh = FALSE
    /\ mirrorBy = "store"
    /\ obs = [folders |-> <<>>, snippets |-> <<>>]
    /\ wholes = {[folders |-> folders, snippets |-> snippets]}

\* Whether every other absorption has finished its writes.
othersWritten(p) ==
    \A q \in Absorbers \ {p} : procs[q].pc \in {"idle", "setLastSync"}

\* Another writer replaces the mirror file; the watcher sees it.
ExternalWrite ==
    /\ ops < MaxOps
    /\ ops' = ops + 1
    /\ backup' = externalFile
    /\ fresh' = TRUE
    /\ mirrorBy' = "external"
    /\ events' = events + 1
    /\ UNCHANGED <<folders, snippets, procs, obs, wholes, racePinned>>

\* snippets.addSnippet: the user adds a snippet to folder 1.
UserStart ==
    /\ ops < MaxOps
    /\ procs["user"].pc = "idle"
    /\ ops' = ops + 1
    /\ procs' = [procs EXCEPT !["user"].pc = "readSnippets"]
    /\ UNCHANGED <<folders, snippets, backup, events, fresh, mirrorBy, obs, wholes, racePinned>>

\* addSnippet, `await this.getSnippets()`
UserReadSnippets ==
    /\ procs["user"].pc = "readSnippets"
    /\ procs' = [procs EXCEPT !["user"].pc = "writeSnippets",
                              !["user"].sn = saveSnippetsData(snippets, now)]
    /\ UNCHANGED <<folders, snippets, backup, ops, events, fresh, mirrorBy, obs, wholes,
                   racePinned>>

\* addSnippet, `await this.saveSnippetsData(snippets)`
UserWriteSnippets ==
    /\ procs["user"].pc = "writeSnippets"
    /\ snippets' = saveSnippetsData(addSnippet(procs["user"].sn, "a", 1, now), now)
    /\ procs' = [procs EXCEPT !["user"].pc = "readFolders",
                              !["user"].sn = addSnippet(procs["user"].sn, "a", 1, now)]
    /\ wholes' = wholes \cup {[folders |-> folders, snippets |-> snippets']}
    /\ UNCHANGED <<folders, backup, ops, events, fresh, mirrorBy, obs, racePinned>>

\* addSnippet, `await this.getFoldersData()` for the mirror
UserReadFolders ==
    /\ procs["user"].pc = "readFolders"
    /\ procs' = [procs EXCEPT !["user"].pc = "writeMirror", !["user"].fs = folders]
    /\ UNCHANGED <<folders, snippets, backup, ops, events, fresh, mirrorBy, obs, wholes,
                   racePinned>>

\* addSnippet, `await this.updateBackupFile(...)`; the watcher sees the write.
UserWriteMirror ==
    /\ procs["user"].pc = "writeMirror"
    /\ backup' = [shape |-> "envelope",
                  data |-> backupData(procs["user"].fs, procs["user"].sn, now)]
    /\ fresh' = TRUE
    /\ mirrorBy' = "store"
    /\ events' = events + 1
    /\ procs' = [procs EXCEPT !["user"].pc = "done"]
    /\ UNCHANGED <<folders, snippets, ops, obs, wholes, racePinned>>

\* A watcher event starts autoSyncFromBackup, which returns at once when the
\* mirror is not newer than the last sync (`backupModified <= lastSync`).
AbsorbStart(p) ==
    /\ events > 0
    /\ procs[p].pc = "idle"
    /\ events' = events - 1
    /\ procs' = IF fresh
                THEN [procs EXCEPT ![p] =
                         [idleProc EXCEPT !.pc = "readMirror",
                                          !.self = (mirrorBy = "store"),
                                          !.after = (procs["user"].pc = "done"
                                                     /\ othersWritten(p))]]
                ELSE procs
    /\ UNCHANGED <<folders, snippets, backup, ops, fresh, mirrorBy, obs, wholes, racePinned>>

\* autoSyncFromBackup, `await fs.promises.readFile(backupPath)`
AbsorbReadMirror(p) ==
    /\ procs[p].pc = "readMirror"
    /\ procs' = [procs EXCEPT ![p].pc = "readFolders", ![p].bak = backup]
    /\ UNCHANGED <<folders, snippets, backup, ops, events, fresh, mirrorBy, obs, wholes,
                   racePinned>>

\* getAllData, `await this.getFoldersData()`
AbsorbReadFolders(p) ==
    /\ procs[p].pc = "readFolders"
    /\ procs' = [procs EXCEPT ![p].pc = "readSnippets", ![p].fs = folders]
    /\ UNCHANGED <<folders, snippets, backup, ops, events, fresh, mirrorBy, obs, wholes,
                   racePinned>>

\* getAllData, `await this.getSnippetsData()`
AbsorbReadSnippets(p) ==
    /\ procs[p].pc = "readSnippets"
    /\ procs' = [procs EXCEPT ![p].pc = "writeFolders",
                              ![p].sn = saveSnippetsData(snippets, now)]
    /\ UNCHANGED <<folders, snippets, backup, ops, events, fresh, mirrorBy, obs, wholes,
                   racePinned>>

\* What the absorption merges from what it has read.
absorbed(p) ==
    LET in == autoSyncParse(procs[p].bak)
    IN  [folders |-> mergeFolders(procs[p].fs, in.folders, now, now),
         snippets |-> mergeSnippets(procs[p].sn, in.snippets, now, now)]

\* syncData, `await this.saveFoldersData(data.folders)`
AbsorbWriteFolders(p) ==
    /\ procs[p].pc = "writeFolders"
    /\ folders' = absorbed(p).folders
    /\ procs' = [procs EXCEPT ![p].pc = "writeSnippets"]
    /\ UNCHANGED <<snippets, backup, ops, events, fresh, mirrorBy, obs, wholes, racePinned>>

\* syncData, `await this.saveSnippetsData(data.snippets)`
AbsorbWriteSnippets(p) ==
    /\ procs[p].pc = "writeSnippets"
    /\ snippets' = saveSnippetsData(absorbed(p).snippets, now)
    /\ procs' = [procs EXCEPT ![p].pc = "writeMirror"]
    /\ wholes' = wholes \cup {[folders |-> folders, snippets |-> snippets']}
    /\ UNCHANGED <<folders, backup, ops, events, fresh, mirrorBy, obs, racePinned>>

\* syncData, `await this.updateBackupFile(data)`; the watcher sees the write.
AbsorbWriteMirror(p) ==
    /\ procs[p].pc = "writeMirror"
    /\ backup' = [shape |-> "envelope",
                  data |-> backupData(absorbed(p).folders, absorbed(p).snippets, now)]
    /\ fresh' = TRUE
    /\ mirrorBy' = "store"
    /\ events' = events + 1
    /\ procs' = [procs EXCEPT ![p].pc = "setLastSync"]
    /\ UNCHANGED <<folders, snippets, ops, obs, wholes, racePinned>>

\* `context.globalState.update('vssnippets.lastSync', Date.now())`: from now on
\* no mirror write made so far is newer than the last sync.
AbsorbSetLastSync(p) ==
    /\ procs[p].pc = "setLastSync"
    /\ fresh' = FALSE
    /\ procs' = [procs EXCEPT ![p] = idleProc]
    /\ UNCHANGED <<folders, snippets, backup, ops, events, mirrorBy, obs, wholes, racePinned>>

\* getAllData by a reader (the tree view), `await this.getFoldersData()`
ReaderReadFolders ==
    /\ procs["reader"].pc = "idle"
    /\ procs' = [procs EXCEPT !["reader"].pc = "readSnippets", !["reader"].fs = folders]
    /\ UNCHANGED <<folders, snippets, backup, ops, events, fresh, mirrorBy, obs, wholes,
                   racePinned>>

\* getAllData, `await this.getSnippetsData()`, and the return
ReaderReadSnippets ==
    /\ procs["reader"].pc = "readSnippets"
    /\ obs' = [folders |-> procs["reader"].fs, snippets |-> saveSnippetsData(snippets, now)]
    /\ procs' = [procs EXCEPT !["reader"].pc = "done"]
    /\ UNCHANGED <<folders, snippets, backup, ops, events, fresh, mirrorBy, wholes, racePinned>>

Absorb(p) ==
    \/ AbsorbStart(p)
    \/ AbsorbReadMirror(p)
    \/ AbsorbReadFolders(p)
    \/ AbsorbReadSnippets(p)
    \/ AbsorbWriteFolders(p)
    \/ AbsorbWriteSnippets(p)
    \/ AbsorbWriteMirror(p)
    \/ AbsorbSetLastSync(p)

User ==
    \/ UserReadSnippets
    \/ UserWriteSnippets
    \/ UserReadFolders
    \/ UserWriteMirror

Reader ==
    \/ ReaderReadFolders
    \/ ReaderReadSnippets

RaceNext ==
    \/ ExternalWrite
    \/ UserStart
    \/ User
    \/ Reader
    \/ \E p \in Absorbers : Absorb(p)

RaceSpec == RaceInit /\ [][RaceNext]_vars

\* One mutation or one external edit, and what the watcher makes of it.
OneExternalWrite ==
    /\ ops = 0
    /\ ExternalWrite

OneUserStart ==
    /\ ops = 0
    /\ UserStart

ChainNext ==
    \/ OneExternalWrite
    \/ OneUserStart
    \/ User
    \/ Reader
    \/ \E p \in Absorbers : Absorb(p)

\* A handler that has started runs on (the event loop serves every pending
\* continuation), and a pending watcher event is delivered.
FairRaceSpec ==
    /\ RaceInit
    /\ [][ChainNext]_vars
    /\ WF_vars(User)
    /\ \A p \in Absorbers : WF_vars(Absorb(p))

(***************************************************************************)
(* The store's handlers with a failing file system.  A handler is the      *)
(* sequence of its awaited file operations; at most one of them fails      *)
(* (the file cannot be read, parsed or written).  What ran before the      *)
(* failure has taken effect; a failed write leaves its file as it was.     *)
(***************************************************************************)
\* addFolder, renameFolder, updateFolderParent, updateFolderOrder:
\* getFoldersData, saveFoldersData, getSnippetsData (for the mirror),
\* updateBackupFile.
foldersFirstIO == <<"readFolders", "writeFolders", "readSnippets", "mirror">>

\* addSnippet, deleteSnippet, updateSnippet, renameSnippet: getSnippetsData,
\* saveSnippetsData (the write, then the read-back whose error is rethrown),
\* getFoldersData (for the mirror), updateBackupFile.
snippetsFirstIO ==
    <<"readSnippets", "writeSnippets", "verifySnippets", "readFolders", "mirror">>

\* deleteFolder, and moveFolder through getAllData and syncData.
bothIO ==
    <<"readFolders", "readSnippets", "writeFolders", "writeSnippets", "verifySnippets",
      "mirror">>

Faults(io) == {"none"} \cup {io[i] : i \in 1..Len(io)}

pos(io, step) == CHOOSE i \in 1..Len(io) : io[i] = step

\* Whether the file operation `step` has taken effect when `fault` strikes.
\* The read-back after a write fails with the file already written.
ioDone(io, fault, step) ==
    \/ fault = "none"
    \/ pos(io, step) < pos(io, fault)

\* updateBackupFile rethrows nothing: a failure to write the mirror is caught
\* and shown.
throwsOnMirrorToo(fault) == fault # "none"

throws(fault) == fault \notin {"none", "mirror"}

\* updateBackupFile(data), when the handler gets that far.
updateBackupFile(fault, fs, snips) ==
    IF fault = "none"
    THEN /\ backup' = mirror(fs, snips)
         /\ mtime' = now
    ELSE UNCHANGED <<backup, mtime>>

faulted(op, id, fault) ==
    /\ ops' = ops + 1
    /\ last' = [Last(op, id, {}, {}) EXCEPT !.fault = fault, !.threw = throws(fault)]
    /\ pre' = [folders |-> folders, snippets |-> snippets, backup |-> backup]
    /\ UNCHANGED <<now, lastSync, mergeVars, raceVars, gistVars, viewVars>>

FaultInit ==
    /\ \E st \in InitStores :
          /\ folders = st.folders
          /\ snippets = st.snippets
          /\ backup = [shape |-> "envelope", data |-> backupData(st.folders, st.snippets, 3)]
          /\ pre = [folders |-> st.folders, snippets |-> st.snippets, backup |-> backup]
    /\ mtime = 3
    /\ lastSync = 3
    /\ now = 4
    /\ ops = 0
    /\ last = noLast
    /\ MergeIdle
    /\ RaceIdle
    /\ GistIdle
    /\ ViewIdle

FaultyAddFolder ==
    /\ ops < MaxOps
    /\ now \notin idsOfSeq(folders)
    /\ \E parentId \in {Null} \cup idsOfSeq(folders) : \E fault \in Faults(foldersFirstIO) :
           /\ folders' = IF ioDone(foldersFirstIO, fault, "writeFolders")
                         THEN addFolder(folders, "a", parentId, now)
                         ELSE folders
           /\ updateBackupFile(fault, addFolder(folders, "a", parentId, now), snippets)
           /\ faulted("addFolder", now, fault)
           /\ UNCHANGED snippets

FaultyAddSnippet ==
    /\ ops < MaxOps
    /\ now \notin idsOfSeq(snippets)
    /\ \E folderId \in idsOfSeq(folders) : \E fault \in Faults(snippetsFirstIO) :
           /\ snippets' = IF ioDone(snippetsFirstIO, fault, "writeSnippets")
                          THEN saveSnippetsData(addSnippet(snippets, "a", folderId, now), now)
                          ELSE snippets
           /\ updateBackupFile(fault, folders, addSnippet(snippets, "a", folderId, now))
           /\ faulted("addSnippet", now, fault)
           /\ UNCHANGED folders

FaultyDeleteFolder ==
    /\ ops < MaxOps
    /\ \E id \in idsOfSeq(folders) : \E fault \in Faults(bothIO) :
           /\ folders' = IF ioDone(bothIO, fault, "writeFolders")
                         THEN deleteFolderFolders(folders, id)
                         ELSE folders
           /\ snippets' = IF ioDone(bothIO, fault, "writeSnippets")
                          THEN saveSnippetsData(deleteFolderSnippets(snippets, id), now)
                          ELSE snippets
           /\ updateBackupFile(fault, deleteFolderFolders(folders, id),
                               deleteFolderSnippets(snippets, id))
           /\ faulted("deleteFolder", id, fault)

FaultyDeleteSnippet ==
    /\ ops < MaxOps
    /\ \E id \in idsOfSeq(snippets) : \E fault \in Faults(snippetsFirstIO) :
           /\ snippets' = IF ioDone(snippetsFirstIO, fault, "writeSnippets")
                          THEN saveSnippetsData(deleteSnippet(snippets, id), now)
                          ELSE snippets
           /\ updateBackupFile(fault, folders, deleteSnippet(snippets, id))
           /\ faulted("deleteSnippet", id, fault)
           /\ UNCHANGED folders

FaultyUpdateSnippet ==
    /\ ops < MaxOps
    /\ \E id \in idsOfSeq(snippets) : \E fault \in Faults(snippetsFirstIO) :
           /\ snippets' = IF ioDone(snippetsFirstIO, fault, "writeSnippets")
                          THEN saveSnippetsData(
                                   updateSnippet(snippets, [noUpdate(id) EXCEPT !.code = "x"],
                                                 now), now)
                          ELSE snippets
           /\ updateBackupFile(fault, folders,
                               updateSnippet(snippets, [noUpdate(id) EXCEPT !.code = "x"], now))
           /\ faulted("updateSnippet", id, fault)
           /\ UNCHANGED folders

FaultyRenameFolder ==
    /\ ops < MaxOps
    /\ \E id \in idsOfSeq(folders) : \E fault \in Faults(foldersFirstIO) :
           /\ folders' = IF ioDone(foldersFirstIO, fault, "writeFolders")
                         THEN renameFolder(folders, id, "b", now)
                         ELSE folders
           /\ updateBackupFile(fault, renameFolder(folders, id, "b", now), snippets)
           /\ faulted("renameFolder", id, fault)
           /\ UNCHANGED snippets

FaultyRenameSnippet ==
    /\ ops < MaxOps
    /\ \E id \in idsOfSeq(snippets) : \E fault \in Faults(snippetsFirstIO) :
           /\ snippets' = IF ioDone(snippetsFirstIO, fault, "writeSnippets")
                          THEN saveSnippetsData(renameSnippet(snippets, id, "b", now), now)
                          ELSE snippets
           /\ updateBackupFile(fault, folders, renameSnippet(snippets, id, "b", now))
           /\ faulted("renameSnippet", id, fault)
           /\ UNCHANGED folders

FaultyUpdateFolderParent ==
    /\ ops < MaxOps
    /\ \E id \in idsOfSeq(folders) : \E fault \in Faults(foldersFirstIO) :
           /\ folders' = IF ioDone(foldersFirstIO, fault, "writeFolders")
                         THEN updateFolderParent(folders, id, Null, now)
                         ELSE folders
           /\ updateBackupFile(fault, updateFolderParent(folders, id, Null, now), snippets)
           /\ faulted("updateFolderParent", id, fault)
           /\ UNCHANGED snippets

\* moveFolder wraps every error in a new one and throws that.
FaultyMoveFolder ==
    /\ ops < MaxOps
    /\ \E id \in idsOfSeq(folders) : \E fault \in Faults(bothIO) :
           /\ folders' = IF ioDone(bothIO, fault, "writeFolders")
                         THEN moveFolder(folders, id, Null, now)
                         ELSE folders
           /\ snippets' = IF ioDone(bothIO, fault, "writeSnippets")
                          THEN saveSnippetsData(snippets, now)
                          ELSE snippets
           /\ updateBackupFile(fault, moveFolder(folders, id, Null, now), snippets)
           /\ faulted("moveFolder", id, fault)

FaultyUpdateFolderOrder ==
    /\ ops < MaxOps
    /\ \E id \in idsOfSeq(folders) : \E direction \in {"up", "down"} :
       \E fault \in Faults(foldersFirstIO) :
           /\ canMove(folders, id, direction)
           /\ folders' = IF ioDone(foldersFirstIO, fault, "writeFolders")
                         THEN updateFolderOrder(folders, id, direction)
                         ELSE folders
           /\ updateBackupFile(fault, updateFolderOrder(folders, id, direction), snippets)
           /\ faulted("updateFolderOrder", id, fault)
           /\ UNCHANGED snippets

FaultNext ==
    \/ FaultyAddFolder
    \/ FaultyAddSnippet
    \/ FaultyDeleteFolder
    \/ FaultyDeleteSnippet
    \/ FaultyUpdateSnippet
    \/ FaultyRenameFolder
    \/ FaultyRenameSnippet
    \/ FaultyUpdateFolderParent
    \/ FaultyMoveFolder
    \/ FaultyUpdateFolderOrder

FaultSpec == FaultInit /\ [][FaultNext]_vars

(***************************************************************************)
(* GistStorage.  A call is a sequence of remote requests; the remote       *)
(* answers 404 for a document it does not hold, and one fault may strike:  *)
(* from request `at` on the credential is rejected (401), or request `at`  *)
(* alone fails (500).  The state a call threads is its view of the         *)
(* remote documents, the mapping, the requests made and the status thrown. *)
(***************************************************************************)
MaxFaultAt == MaxLen + 1

GistFaults ==
    {[kind |-> "none", at |-> 0]} \cup [kind : {"auth", "error"}, at : 1..MaxFaultAt]

\* The ids of a set in the order Object.entries and the snippet list give.
RECURSIVE asSeq(_)
asSeq(S) ==
    IF S = {} THEN <<>>
    ELSE LET least == CHOOSE x \in S : \A y \in S : x <= y
         IN  <<least>> \o asSeq(S \ {least})

respond(st, fault, method, doc) ==
    LET n == Len(st.log) + 1
    IN  IF fault.kind = "auth" /\ n >= fault.at THEN 401
        ELSE IF fault.kind = "error" /\ n = fault.at THEN 500
        ELSE IF method \in {"delete", "patch", "get"} /\ st.docs[doc] = "absent" THEN 404
        ELSE 200

request(method, doc, status) == [method |-> method, doc |-> doc, status |-> status]

\* sync, the loop over the mappings of snippets deleted locally: the delete
\* request in a try whose catch only logs, then removeGistMapping.
removeOrphan(st, fault, s) ==
    LET d == st.gistMapping[s]
        r == respond(st, fault, "delete", d)
    IN  [st EXCEPT !.log = Append(@, request("delete", d, r)),
                   !.docs[d] = IF r = 200 THEN "absent" ELSE @,
                   !.gistMapping[s] = NoDoc]

\* deleteSnippetGist(snippetId)
deleteSnippetGist(st, fault, s) ==
    IF st.gistMapping[s] # NoDoc THEN removeOrphan(st, fault, s) ELSE st

\* create without saveSnippetGistId
createUnmapped(st, fault, s) ==
    LET r == respond(st, fault, "post", NoDoc)
    IN  IF r = 200
        THEN [st EXCEPT !.log = Append(@, request("post", st.made + 1, r)),
                        !.made = @ + 1,
                        !.docs[st.made + 1] = "snippet"]
        ELSE [st EXCEPT !.log = Append(@, request("post", NoDoc, r)),
                        !.error = r]

\* axios.post and saveSnippetGistId(snippet.id, response.data.id); a failed
\* post is thrown.
create(st, fault, s) ==
    LET r == respond(st, fault, "post", NoDoc)
    IN  IF r = 200
        THEN [st EXCEPT !.log = Append(@, request("post", st.made + 1, r)),
                        !.made = @ + 1,
                        !.docs[st.made + 1] = "snippet",
                        !.gistMapping[s] = st.made + 1]
        ELSE [st EXCEPT !.log = Append(@, request("post", NoDoc, r)),
                        !.error = r]

\* getSnippetGistId answering null whatever the mapping holds
getSnippetGistIdNull(st, s) == NoDoc

getSnippetGistId(st, s) == st.gistMapping[s]

\* the loop body with a 404 thrown like every other status
pushSnippetNoRecreate(st, fault, s) ==
    IF st.error # 0 THEN st
    ELSE LET d == getSnippetGistId(st, s)
         IN  IF d # NoDoc
             THEN LET r == respond(st, fault, "patch", d)
                      st1 == [st EXCEPT !.log = Append(@, request("patch", d, r))]
                  IN  IF r = 200 THEN [st1 EXCEPT !.docs[d] = "snippet"]
                      ELSE [st1 EXCEPT !.error = r]
             ELSE create(st, fault, s)

\* sync, the body of the loop over localData.snippets; nothing runs after a
\* throw.
pushSnippet(st, fault, s) ==
    IF st.error # 0 THEN st
    ELSE LET d == getSnippetGistId(st, s)
         IN  IF d # NoDoc
             THEN LET r == respond(st, fault, "patch", d)
                      st1 == [st EXCEPT !.log = Append(@, request("patch", d, r))]
                  IN  IF r = 200 THEN [st1 EXCEPT !.docs[d] = "snippet"]
                      ELSE IF r = 404
                      THEN create([st1 EXCEPT !.gistMapping[s] = NoDoc], fault, s)
                      ELSE [st1 EXCEPT !.error = r]
             ELSE create(st, fault, s)

RECURSIVE removeOrphans(_, _, _, _)
removeOrphans(st, fault, ids, k) ==
    IF k > Len(ids) THEN st
    ELSE removeOrphans(removeOrphan(st, fault, ids[k]), fault, ids, k + 1)

RECURSIVE pushSnippets(_, _, _, _)
pushSnippets(st, fault, ids, k) ==
    IF k > Len(ids) THEN st
    ELSE pushSnippets(pushSnippet(st, fault, ids[k]), fault, ids, k + 1)

\* sync(localData)
sync(st, fault, local) ==
    LET orphans == {s \in Ids : st.gistMapping[s] # NoDoc /\ s \notin local}
    IN  pushSnippets(removeOrphans(st, fault, asSeq(orphans), 1), fault, asSeq(local), 1)

\* sync, the catch that turns the status into the error thrown.
syncError(status) ==
    CASE status = 0 -> "none"
      [] status = 401 -> "GitHub token is invalid or expired"
      [] status = 403 -> "Rate limit exceeded or insufficient permissions"
      [] OTHER -> "Failed to sync snippets"

\* the loop body removing the mapping after any failed request
loadOnePruning(st, fault, s, prune) ==
    LET d == st.gistMapping[s]
        r == respond(st, fault, "get", d)
        st1 == [st EXCEPT !.log = Append(@, request("get", d, r))]
    IN  IF r = 200
        THEN IF st.docs[d] = "snippet" THEN [st1 EXCEPT !.loaded = @ \cup {s}] ELSE st1
        ELSE [st1 EXCEPT !.gistMapping[s] = NoDoc]

\* load, the body of the loop over the mapping: any error of the request is
\* logged and the document skipped; the second load also removes the mapping
\* when the answer is 404.
loadOne(st, fault, s, prune) ==
    LET d == st.gistMapping[s]
        r == respond(st, fault, "get", d)
        st1 == [st EXCEPT !.log = Append(@, request("get", d, r))]
    IN  IF r = 200
        THEN IF st.docs[d] = "snippet" THEN [st1 EXCEPT !.loaded = @ \cup {s}] ELSE st1
        ELSE IF r = 404 /\ prune THEN [st1 EXCEPT !.gistMapping[s] = NoDoc]
        ELSE st1

RECURSIVE loadAll(_, _, _, _, _)
loadAll(st, fault, ids, k, prune) ==
    IF k > Len(ids) THEN st
    ELSE loadAll(loadOne(st, fault, ids[k], prune), fault, ids, k + 1, prune)

mapped(st) == {s \in Ids : st.gistMapping[s] # NoDoc}

\* load()
load(st, fault) == loadAll(st, fault, asSeq(mapped(st)), 1, FALSE)

\* load() of the second GistStorage: the credential is verified with a
\* request of its own, and a failure of it returns null.
loadVerified(st, fault) ==
    LET r == respond(st, fault, "user", NoDoc)
        st1 == [st EXCEPT !.log = Append(@, request("user", NoDoc, r))]
    IN  IF r # 200 THEN [st1 EXCEPT !.null = TRUE]
        ELSE loadAll(st1, fault, asSeq(mapped(st1)), 1, TRUE)

call ==
    [docs |-> docs, gistMapping |-> gistMapping, made |-> made, log |-> <<>>, error |-> 0,
     loaded |-> {}, null |-> FALSE]

called(op, local, id, fault, st, result) ==
    /\ docs' = st.docs
    /\ gistMapping' = st.gistMapping
    /\ made' = st.made
    /\ glast' = [op |-> op, local |-> local, id |-> id, fault |-> fault, log |-> st.log,
                 error |-> syncError(st.error), loaded |-> result,
                 pre |-> [docs |-> docs, gistMapping |-> gistMapping]]
    /\ gops' = gops + 1
    /\ UNCHANGED <<runs, storeVars, mergeVars, raceVars, viewVars>>

GistInit ==
    /\ GistIdle
    /\ ViewIdle
    /\ StoreIdle
    /\ MergeIdle
    /\ RaceIdle

Sync ==
    /\ gops < MaxOps
    /\ \E local \in SUBSET Ids : \E fault \in GistFaults :
           /\ made + Cardinality(local) <= MaxDocs
           /\ called("sync", local, 0, fault, sync(call, fault, local), {})

DeleteSnippetGist ==
    /\ gops < MaxOps
    /\ \E s \in Ids : \E fault \in GistFaults :
           called("deleteSnippetGist", {}, s, fault, deleteSnippetGist(call, fault, s), {})

Load ==
    /\ gops < MaxOps
    /\ \E fault \in GistFaults :
           called("load", {}, 0, fault, load(call, fault), load(call, fault).loaded)

LoadVerified ==
    /\ gops < MaxOps
    /\ \E fault \in GistFaults :
           called(IF loadVerified(call, fault).null THEN "loadNull" ELSE "load", {}, 0, fault,
                  loadVerified(call, fault), loadVerified(call, fault).loaded)

\* Someone deletes a document on the remote.
RemoteDelete ==
    /\ \E d \in DocIds :
           /\ docs[d] # "absent"
           /\ docs' = [docs EXCEPT ![d] = "absent"]
           /\ glast' = [noGist EXCEPT !.op = "remoteDelete", !.id = d,
                                      !.pre = [docs |-> docs, gistMapping |-> gistMapping]]
    /\ UNCHANGED <<gistMapping, made, gops, runs, storeVars, mergeVars, raceVars, viewVars>>

\* Someone empties the file of a document on the remote.
RemoteEmpty ==
    /\ \E d \in DocIds :
           /\ docs[d] = "snippet"
           /\ docs' = [docs EXCEPT ![d] = "empty"]
           /\ glast' = [noGist EXCEPT !.op = "remoteEmpty", !.id = d,
                                      !.pre = [docs |-> docs, gistMapping |-> gistMapping]]
    /\ UNCHANGED <<gistMapping, made, gops, runs, storeVars, mergeVars, raceVars, viewVars>>

GistNext ==
    \/ Sync
    \/ DeleteSnippetGist
    \/ Load
    \/ LoadVerified
    \/ RemoteDelete
    \/ RemoteEmpty

GistSpec == GistInit /\ [][GistNext]_vars

(***************************************************************************)
(* The readers of a collection file, each applied to one file: mLocal      *)
(* holds the file (its shape and its records), mOp the reader applied and  *)
(* mResult the folders and snippets it found.  The files are those written *)
(* elsewhere and those the export command writes for a store.              *)
(***************************************************************************)
\* snippets.exportSnippets: {folders, snippets}, every folder with
\* type 'folder'.
exportSnippets(fs, snips) ==
    [shape |-> "object",
     data |-> [i \in 1..Len(fs) |-> [fs[i] EXCEPT !.type = "folder"]] \o snips]

Shapes == {"envelope", "object", "array"}

ParseFiles ==
    {[shape |-> sh, data |-> d] : sh \in Shapes, d \in FileContents \ {<<extSnippet(NoId, 1, 1)>>}}
        \cup {[shape |-> sh, data |-> exportSnippets(st.folders, st.snippets).data] :
                  sh \in Shapes, st \in InitStores}

ParseInit ==
    /\ mLocal \in ParseFiles
    /\ mIncoming = <<>>
    /\ mT1 = 1
    /\ mT2 = 1
    /\ mOp = "init"
    /\ mResult = [folders |-> <<>>, snippets |-> <<>>]
    /\ StoreIdle
    /\ RaceIdle
    /\ GistIdle
    /\ ViewIdle

ImportCommandParse ==
    /\ mOp' = "importParse"
    /\ mResult' = importParse(mLocal)
    /\ UNCHANGED <<mLocal, mIncoming, mT1, mT2, storeVars, raceVars, gistVars, viewVars>>

AutoSyncParse ==
    /\ mOp' = "autoSyncParse"
    /\ mResult' = autoSyncParse(mLocal)
    /\ UNCHANGED <<mLocal, mIncoming, mT1, mT2, storeVars, raceVars, gistVars, viewVars>>

SyncCommandParse ==
    /\ mOp' = "syncCommandParse"
    /\ mResult' = syncCommandParse(mLocal)
    /\ UNCHANGED <<mLocal, mIncoming, mT1, mT2, storeVars, raceVars, gistVars, viewVars>>

GetBackupData ==
    /\ mOp' = "getBackupData"
    /\ mResult' = getBackupData(mLocal)
    /\ UNCHANGED <<mLocal, mIncoming, mT1, mT2, storeVars, raceVars, gistVars, viewVars>>

ParseNext ==
    \/ ImportCommandParse
    \/ AutoSyncParse
    \/ SyncCommandParse
    \/ GetBackupData

ParseSpec == ParseInit /\ [][ParseNext]_vars

(***************************************************************************)
(* Search in the sidebar.  A string is a sequence of characters over a     *)
(* small alphabet: two lower-case letters, an upper-case letter, the space *)
(* and the tab.                                                            *)
(***************************************************************************)
MaxQuery == 3   \* characters in a search query

Chars == {"a", "b", "A", " ", "\t"}

Strings(n) == UNION {[1..k -> Chars] : k \in 0..n}

\* String.prototype.toLowerCase
toLowerCase(str) == [i \in 1..Len(str) |-> IF str[i] = "A" THEN "a" ELSE str[i]]

\* String.prototype.includes
includes(str, term) ==
    \E k \in 0..(Len(str) - Len(term)) :
        \A i \in 1..Len(term) : str[k + i] = term[i]

RECURSIVE splitOn(_, _, _)
\* The pieces of str between the characters of seps, the piece being read
\* held in cur; an empty piece is a piece.
splitOn(str, seps, cur) ==
    IF str = <<>> THEN <<cur>>
    ELSE IF Head(str) \in seps
         THEN <<cur>> \o splitOn(Tail(str), seps, <<>>)
         ELSE splitOn(Tail(str), seps, Append(cur, Head(str)))

\* String.prototype.split(' ')
split(str) == splitOn(str, {" "}, <<>>)

\* A snippet as the search reads it: hasTags is false for a snippet object
\* without a tags array.
SearchSnippet(name, hasTags, tags, notes, code) ==
    [kind |-> "snippet", name |-> name, hasTags |-> hasTags, tags |-> tags,
     notes |-> notes, code |-> code]

SearchFolder(name) == [kind |-> "folder", name |-> name]

Words == {<<>>, <<"a">>, <<"b">>, <<"A", "b">>, <<"a", " ", "b">>, <<"b", "a">>}

SearchSnippets ==
    {SearchSnippet(n, TRUE, {}, <<>>, c) : n \in Words, c \in {<<>>, <<"b">>, <<"A">>}}
        \cup {SearchSnippet(<<>>, TRUE, t, n, <<>>) :
                  t \in {{<<"A">>}, {<<"a">>, <<"b">>}},
                  n \in {<<>>, <<"b">>, <<"a", "\t", "b">>}}
        \cup {SearchSnippet(<<"b">>, FALSE, {}, n, <<>>) : n \in {<<>>, <<"A">>}}

SearchFolders == {SearchFolder(n) : n \in Words \cup {<<"a", "\t", "b">>, <<"b", " ", "a">>}}

\* One term against the fields; `snippet.notes && ...`: the empty string is
\* falsy.
termMatches(snippet, term) ==
    \/ includes(toLowerCase(snippet.name), term)
    \/ /\ snippet.hasTags
       /\ \E tag \in snippet.tags : includes(toLowerCase(tag), term)
    \/ /\ snippet.notes # <<>>
       /\ includes(toLowerCase(snippet.notes), term)
    \/ /\ snippet.code # <<>>
       /\ includes(toLowerCase(snippet.code), term)

snippetMatchesSearch(query, snippet) ==
    IF query = <<>> THEN TRUE
    ELSE LET searchTerms == split(toLowerCase(query))
         IN  \A k \in 1..Len(searchTerms) : termMatches(snippet, searchTerms[k])

folderMatchesSearch(query, folder) ==
    IF query = <<>> THEN TRUE
    ELSE includes(toLowerCase(folder.name), toLowerCase(query))

\* setSearchQuery stores the query lower-cased; the item searched is kept in
\* `shown` with the answer.
SearchInit ==
    /\ searchQuery \in {toLowerCase(q) : q \in Strings(MaxQuery)}
    /\ treeFolders = <<>>
    /\ treeSnippets = <<>>
    /\ isLoading = FALSE
    /\ loads = [p \in Loaders |-> idleLoad]
    /\ path = <<>>
    /\ shown = <<>>
    /\ vop = "none"
    /\ StoreIdle
    /\ MergeIdle
    /\ RaceIdle
    /\ GistIdle

SnippetMatchesSearch ==
    /\ vop = "none"
    /\ \E snippet \in SearchSnippets :
           shown' = [item |-> snippet, matches |-> snippetMatchesSearch(searchQuery, snippet)]
    /\ vop' = "snippetMatchesSearch"
    /\ UNCHANGED <<searchQuery, treeFolders, treeSnippets, isLoading, loads, path,
                   storeVars, mergeVars, raceVars, gistVars>>

FolderMatchesSearch ==
    /\ vop = "none"
    /\ \E folder \in SearchFolders :
           shown' = [item |-> folder, matches |-> folderMatchesSearch(searchQuery, folder)]
    /\ vop' = "folderMatchesSearch"
    /\ UNCHANGED <<searchQuery, treeFolders, treeSnippets, isLoading, loads, path,
                   storeVars, mergeVars, raceVars, gistVars>>

SearchNext ==
    \/ SnippetMatchesSearch
    \/ FolderMatchesSearch

SearchSpec == SearchInit /\ [][SearchNext]_vars

(***************************************************************************)
(* The tree in the sidebar.  The provider keeps a copy of the store        *)
(* (treeFolders, treeSnippets) that loadData fills; getChildren projects   *)
(* that copy.  loadData is split where it awaits: after its isLoading test *)
(* it reads the folders file, then the snippets file, then assigns both    *)
(* and clears isLoading.  A handler that changes the store calls refresh() *)
(* when the change is written.                                             *)
(***************************************************************************)
MaxDepth == MaxLen + 1

SnippetTreeItem(id, type, parentId) == [id |-> id, type |-> type, parentId |-> parentId]

NoElement == SnippetTreeItem(NoId, "root", Null)

\* getChildren while no search is active (searchQuery is '').
getChildren(fs, snips, element) ==
    IF element = NoElement
    THEN LET rootFolders == SelectSeq(fs, LAMBDA f : f.parentId = Null)
         IN  [i \in 1..Len(rootFolders) |-> SnippetTreeItem(rootFolders[i].id, "folder", Null)]
    ELSE IF element.type = "folder"
    THEN LET subfolders == SelectSeq(fs, LAMBDA f : f.parentId = element.id)
             folderSnippets == SelectSeq(snips, LAMBDA sn : sn.folderId = element.id)
         IN  [i \in 1..Len(subfolders) |->
                  SnippetTreeItem(subfolders[i].id, "folder", subfolders[i].parentId)]
             \o [i \in 1..Len(folderSnippets) |->
                  SnippetTreeItem(folderSnippets[i].id, "snippet", folderSnippets[i].folderId)]
    ELSE <<>>

\* loadData up to its first await: a call made while another is loading
\* returns at once.
startLoad(p) ==
    /\ loads[p].pc = "idle"
    /\ IF isLoading
       THEN /\ loads' = [loads EXCEPT ![p] = [idleLoad EXCEPT !.pc = "skipped"]]
            /\ UNCHANGED isLoading
       ELSE /\ loads' = [loads EXCEPT ![p] = [idleLoad EXCEPT !.pc = "readFolders"]]
            /\ isLoading' = TRUE

\* The provider is constructed on a store: its constructor has called
\* loadData, which is reading.
ViewInit ==
    /\ \E st \in InitStores :
          /\ folders = st.folders
          /\ snippets = st.snippets
          /\ backup = [shape |-> "envelope", data |-> backupData(st.folders, st.snippets, 3)]
          /\ pre = [folders |-> st.folders, snippets |-> st.snippets, backup |-> backup]
    /\ mtime = 3
    /\ lastSync = 3
    /\ now = 4
    /\ ops = 0
    /\ last = noLast
    /\ searchQuery = <<>>
    /\ treeFolders = <<>>
    /\ treeSnippets = <<>>
    /\ isLoading = TRUE
    /\ loads = [p \in Loaders |-> IF p = "load1" THEN [idleLoad EXCEPT !.pc = "readFolders"]
                                  ELSE idleLoad]
    /\ path = <<>>
    /\ shown = <<>>
    /\ vop = "none"
    /\ MergeIdle
    /\ RaceIdle
    /\ GistIdle

ViewTick ==
    /\ now < MaxClock
    /\ now' = now + 1
    /\ UNCHANGED <<folders, snippets, backup, mtime, lastSync, ops, last, pre, mergeVars,
                   raceVars, gistVars, viewVars>>

\* snippets.addFolder: addFolder, then refresh().
AddFolderAndRefresh ==
    /\ ops < MaxOps
    /\ \E parentId \in {Null} \cup idsOfSeq(folders) : \E p \in Loaders :
           /\ Len(folders) < MaxLen + 1
           /\ folders' = addFolder(folders, "a", parentId, now)
           /\ backup' = mirror(folders', snippets)
           /\ mtime' = now
           /\ ops' = ops + 1
           /\ last' = Last("addFolder", now, {}, {})
           /\ pre' = [folders |-> folders, snippets |-> snippets, backup |-> backup]
           /\ startLoad(p)
           /\ vop' = "refresh"
           /\ UNCHANGED <<snippets, lastSync, now, mergeVars, raceVars, gistVars,
                          searchQuery, treeFolders, treeSnippets, path, shown>>

\* updateFolderParent, followed by refresh() as every handler that changes
\* the store is.
UpdateFolderParentAndRefresh ==
    /\ ops < MaxOps
    /\ \E id \in idsOfSeq(folders) : \E newParentId \in {Null} \cup idsOfSeq(folders) :
       \E p \in Loaders :
           /\ folders' = updateFolderParent(folders, id, newParentId, now)
           /\ backup' = mirror(folders', snippets)
           /\ mtime' = now
           /\ ops' = ops + 1
           /\ last' = Last("updateFolderParent", id, {}, {})
           /\ pre' = [folders |-> folders, snippets |-> snippets, backup |-> backup]
           /\ startLoad(p)
           /\ vop' = "refresh"
           /\ UNCHANGED <<snippets, lastSync, now, mergeVars, raceVars, gistVars,
                          searchQuery, treeFolders, treeSnippets, path, shown>>

\* refresh() with no change of the store before it (clearSearch).
Refresh ==
    /\ \E p \in Loaders : startLoad(p)
    /\ vop' = "refresh"
    /\ UNCHANGED <<searchQuery, treeFolders, treeSnippets, path, shown,
                   storeVars, mergeVars, raceVars, gistVars>>

\* getAllData: `folders: await this.getFoldersData()`
LoadReadFolders ==
    /\ \E p \in Loaders :
           /\ loads[p].pc = "readFolders"
           /\ loads' = [loads EXCEPT ![p] = [@ EXCEPT !.pc = "readSnippets", !.fs = folders]]
    /\ vop' = "loadData"
    /\ UNCHANGED <<searchQuery, treeFolders, treeSnippets, isLoading, path, shown,
                   storeVars, mergeVars, raceVars, gistVars>>

\* getAllData: `snippets: await this.getSnippetsData()`, then the two
\* assignments and the finally block of loadData.
LoadReadSnippets ==
    /\ \E p \in Loaders :
           /\ loads[p].pc = "readSnippets"
           /\ treeFolders' = loads[p].fs
           /\ treeSnippets' = saveSnippetsData(snippets, now)
           /\ loads' = [loads EXCEPT ![p] = idleLoad]
    /\ isLoading' = FALSE
    /\ path' = <<>>
    /\ vop' = "loadData"
    /\ UNCHANGED <<searchQuery, shown, storeVars, mergeVars, raceVars, gistVars>>

\* refresh() after a loadData that returned at once: the event is fired on
\* the copy as it is.
RefreshSkipped ==
    /\ \E p \in Loaders :
           /\ loads[p].pc = "skipped"
           /\ loads' = [loads EXCEPT ![p] = idleLoad]
    /\ path' = <<>>
    /\ vop' = "refreshSkipped"
    /\ UNCHANGED <<searchQuery, treeFolders, treeSnippets, isLoading, shown,
                   storeVars, mergeVars, raceVars, gistVars>>

\* The user opens a folder of the tree: getChildren of the root, or of the
\* folder opened last, and one of the folders it returns is opened.
Expand ==
    /\ Len(path) < MaxDepth
    /\ LET element == IF path = <<>> THEN NoElement
                      ELSE SnippetTreeItem(path[Len(path)], "folder", Null)
           children == getChildren(treeFolders, treeSnippets, element)
       IN  /\ shown' = children
           /\ \E i \in 1..Len(children) :
                  /\ children[i].type = "folder"
                  /\ path' = Append(path, children[i].id)
    /\ vop' = "getChildren"
    /\ UNCHANGED <<searchQuery, treeFolders, treeSnippets, isLoading, loads,
                   storeVars, mergeVars, raceVars, gistVars>>

ViewNext ==
    \/ ViewTick
    \/ AddFolderAndRefresh
    \/ UpdateFolderParentAndRefresh
    \/ Refresh
    \/ LoadReadFolders
    \/ LoadReadSnippets
    \/ RefreshSkipped
    \/ Expand

ViewSpec == ViewInit /\ [][ViewNext]_vars

(***************************************************************************)
(* Reading the store.  The snippets file is read as it was left by this    *)
(* version, by an older one (no lastModified, no tags) or by hand; obs     *)
(* holds what the last read returned and mResult what the read before it   *)
(* returned.  Nothing but reads and the clock is at work.                  *)
(***************************************************************************)
\* A snippet of a snippets.json written before snippets carried
\* lastModified.
legacySnippet == Snippet(5, "b", 1, "y", "plaintext", "", {}, NoTime)

\* A snippet object holding only the required keys.
bareSnippet == [id |-> 6, name |-> "b", folderId |-> 1, lastModified |-> 2]

StoredSnippets == {seedSnippet, legacySnippet, bareSnippet}

ReadStores ==
    {<<>>} \cup {<<a>> : a \in StoredSnippets}
           \cup {st \in [1..2 -> StoredSnippets] : st[1] # st[2]}

\* getSnippetsData: the file's records, each with its defaults filled in.
getSnippetsData(snips, t) == [i \in 1..Len(snips) |-> sanitizeSnippet(snips[i], t)]

ReadInit ==
    /\ folders = <<seedFolder1>>
    /\ snippets \in ReadStores
    /\ backup = [shape |-> "absent", data |-> <<>>]
    /\ pre = [folders |-> folders, snippets |-> snippets, backup |-> backup]
    /\ mtime = 3
    /\ lastSync = 3
    /\ now = 4
    /\ ops = 0
    /\ last = noLast
    /\ mLocal = <<>>
    /\ mIncoming = <<>>
    /\ mT1 = 1
    /\ mT2 = 1
    /\ mOp = "idle"
    /\ mResult = [folders |-> <<>>, snippets |-> <<>>]
    /\ RaceIdle
    /\ GistIdle
    /\ ViewIdle

ReadTick ==
    /\ now < MaxClock
    /\ now' = now + 1
    /\ UNCHANGED <<folders, snippets, backup, mtime, lastSync, ops, last, pre, mergeVars,
                   raceVars, gistVars, viewVars>>

GetSnippets ==
    /\ ops < MaxOps
    /\ obs' = [folders |-> <<>>, snippets |-> getSnippetsData(snippets, now)]
    /\ mResult' = obs
    /\ ops' = ops + 1
    /\ last' = Last("getSnippets", NoId, {}, {})
    /\ pre' = [folders |-> folders, snippets |-> snippets, backup |-> backup]
    /\ UNCHANGED <<folders, snippets, backup, mtime, lastSync, now,
                   mLocal, mIncoming, mT1, mT2, mOp,
                   procs, events, fresh, mirrorBy, wholes, storage, gistVars, viewVars>>

GetAllData ==
    /\ ops < MaxOps
    /\ obs' = [folders |-> folders, snippets |-> getSnippetsData(snippets, now)]
    /\ mResult' = obs
    /\ ops' = ops + 1
    /\ last' = Last("getAllData", NoId, {}, {})
    /\ pre' = [folders |-> folders, snippets |-> snippets, backup |-> backup]
    /\ UNCHANGED <<folders, snippets, backup, mtime, lastSync, now,
                   mLocal, mIncoming, mT1, mT2, mOp,
                   procs, events, fresh, mirrorBy, wholes, storage, gistVars, viewVars>>

ReadNext ==
    \/ ReadTick
    \/ GetSnippets
    \/ GetAllData

ReadSpec == ReadInit /\ [][ReadNext]_vars

(***************************************************************************)
(* What a remote document holds.  sync writes for every snippet one        *)
(* document: a metadata block (name, folder name, language, notes, id,     *)
(* folderId) and the code.  load builds from every mapped document a       *)
(* snippet and, the first time a folder id is met, a root folder.  Here    *)
(* docs holds for a document its content ([kind |-> "absent"] for none),   *)
(* and the remote answers every request.                                   *)
(***************************************************************************)
absentDoc == [kind |-> "absent"]

\* `folder?.name || 'No Folder'`
folderNameOf(fs, folderId) ==
    IF mapHas(fs, folderId) THEN mapGet(fs, folderId).name ELSE "No Folder"

\* The content sync writes for a snippet: tags and lastModified are not part
\* of it.
gistContent(fs, sn) ==
    [kind |-> "json",
     metadata |-> [name |-> sn.name, folder |-> folderNameOf(fs, sn.folderId),
                   language |-> orDefault(sn.language, "plaintext"),
                   notes |-> orDefault(sn.notes, ""),
                   id |-> sn.id, folderId |-> sn.folderId],
     code |-> sn.code]

RECURSIVE syncAll(_, _, _, _)
\* The loop of sync over the first k snippets: patch the mapped document,
\* create and map a document for an unmapped snippet.
syncAll(st, fs, snips, k) ==
    IF k = 0 THEN st
    ELSE LET s0 == syncAll(st, fs, snips, k - 1)
             sn == snips[k]
             gistId == s0.gistMapping[sn.id]
         IN  IF gistId # NoDoc
             THEN [s0 EXCEPT !.docs[gistId] = gistContent(fs, sn)]
             ELSE [docs |-> [s0.docs EXCEPT ![s0.made + 1] = gistContent(fs, sn)],
                   gistMapping |-> [s0.gistMapping EXCEPT ![sn.id] = s0.made + 1],
                   made |-> s0.made + 1]

\* The folder load adds for a document: no lastModified, no order, always at
\* the root.
loadedFolder(content) ==
    Folder(content.metadata.folderId, content.metadata.folder, Null, "primary",
           NoOrder, NoTime)

\* The snippet load builds from a document: no tags, no lastModified.
loadedSnippet(content, snippetId) ==
    Snippet(IF content.metadata.id # NoId THEN content.metadata.id ELSE snippetId,
            content.metadata.name, content.metadata.folderId,
            orDefault(content.code, ""), orDefault(content.metadata.language, "plaintext"),
            orDefault(content.metadata.notes, ""), NoTags, NoTime)

RECURSIVE loadDocs(_, _, _)
\* The loop of load over the mapping's entries, which are in the order the
\* documents were created.
loadDocs(ds, mapping, k) ==
    IF k = 0 THEN [folders |-> <<>>, snippets |-> <<>>]
    ELSE LET acc == loadDocs(ds, mapping, k - 1)
             owners == {sid \in DOMAIN mapping : mapping[sid] = k}
         IN  IF owners = {} \/ ds[k] = absentDoc THEN acc
             ELSE LET content == ds[k]
                      snippet == loadedSnippet(content, CHOOSE sid \in owners : TRUE)
                      fs == IF /\ content.metadata.folderId # Null
                               /\ ~mapHas(acc.folders, content.metadata.folderId)
                            THEN Append(acc.folders, loadedFolder(content))
                            ELSE acc.folders
                  IN  [folders |-> fs,
                       snippets |-> IF snippet.id # NoId /\ snippet.folderId # Null
                                    THEN Append(acc.snippets, snippet)
                                    ELSE acc.snippets]

\* A folder below another folder, and a snippet in it with tags.
nestedFolder == Folder(2, "b", 1, "primary", 0, 2)

taggedSnippet == Snippet(5, "b", 2, "y", "js", "n", {"t"}, 3)

looseSnippet == Snippet(6, "b", 9, "y", "plaintext", "", {}, 2)

RoundStores ==
    InitStores
        \cup {[folders |-> <<seedFolder1, nestedFolder>>, snippets |-> sn] :
                 sn \in {<<taggedSnippet>>, <<seedSnippet, taggedSnippet>>,
                         <<seedSnippet, looseSnippet>>}}

RoundInit ==
    /\ \E st \in RoundStores :
          /\ folders = st.folders
          /\ snippets = st.snippets
          /\ backup = [shape |-> "envelope", data |-> backupData(st.folders, st.snippets, 3)]
          /\ pre = [folders |-> st.folders, snippets |-> st.snippets, backup |-> backup]
          /\ gistMapping = [sid \in idsOfSeq(st.snippets) |-> NoDoc]
    /\ mtime = 3
    /\ lastSync = 3
    /\ now \in 3..4
    /\ ops = 0
    /\ last = noLast
    /\ docs = [d \in DocIds |-> absentDoc]
    /\ made = 0
    /\ glast = noGist
    /\ gops = 0
    /\ runs = [p \in Runs |-> idleRun]
    /\ MergeIdle
    /\ RaceIdle
    /\ ViewIdle

RoundTick ==
    /\ now < MaxClock
    /\ now' = now + 1
    /\ UNCHANGED <<folders, snippets, backup, mtime, lastSync, ops, last, pre, mergeVars,
                   raceVars, gistVars, viewVars>>

\* GistStorage.sync of the store's folders and snippets.
Push ==
    /\ gops < MaxOps
    /\ LET st == syncAll([docs |-> docs, gistMapping |-> gistMapping, made |-> made],
                         folders, snippets, Len(snippets))
       IN  /\ docs' = st.docs
           /\ gistMapping' = st.gistMapping
           /\ made' = st.made
    /\ gops' = gops + 1
    /\ glast' = [noGist EXCEPT !.op = "sync", !.local = idsOfSeq(snippets)]
    /\ UNCHANGED <<runs, storeVars, mergeVars, raceVars, viewVars>>

\* GistStorage.load, its result merged into the store and saved (syncData).
PullAndMerge ==
    /\ ops < MaxOps
    /\ LET data == loadDocs(docs, gistMapping, made)
       IN  /\ syncData([folders |-> mergeFolders(folders, data.folders, now, now),
                        snippets |-> mergeSnippets(snippets, data.snippets, now, now)])
           /\ last' = Last("pullAndMerge", NoId, idsOfSeq(data.folders), idsOfSeq(data.snippets))
    /\ ops' = ops + 1
    /\ pre' = [folders |-> folders, snippets |-> snippets, backup |-> backup]
    /\ UNCHANGED <<lastSync, now, mergeVars, raceVars, gistVars, viewVars>>

RoundNext ==
    \/ RoundTick
    \/ Push
    \/ PullAndMerge

RoundSpec == RoundInit /\ [][RoundNext]_vars

(***************************************************************************)
(* Two sync calls over the same snippets, each split where it awaits: the  *)
(* lookup of the snippet's document id, the request to the remote, and the *)
(* write of the mapping.  glast.local holds the snippets both calls push.  *)
(* The remote answers every request and nobody deletes a document, and no  *)
(* mapped snippet is missing from the snippets pushed.                     *)
(***************************************************************************)
PushInit ==
    /\ \E local \in (SUBSET Ids) \ {{}} : glast = [noGist EXCEPT !.local = local]
    /\ \/ /\ docs = [d \in DocIds |-> "absent"]
          /\ gistMapping = [s \in Ids |-> NoDoc]
          /\ made = 0
       \/ /\ 1 \in glast.local
          /\ docs = [d \in DocIds |-> IF d = 1 THEN "snippet" ELSE "absent"]
          /\ gistMapping = [s \in Ids |-> IF s = 1 THEN 1 ELSE NoDoc]
          /\ made = 1
    /\ gops = 0
    /\ runs = [p \in Runs |-> idleRun]
    /\ StoreIdle
    /\ MergeIdle
    /\ RaceIdle
    /\ ViewIdle

\* The snippet a call is at.
snippetOf(p) == asSeq(glast.local)[runs[p].k]

\* The call moves on to its next snippet, or returns.
nextSnippet(run) ==
    IF run.k < Cardinality(glast.local)
    THEN [pc |-> "lookup", k |-> run.k + 1, id |-> 0]
    ELSE [pc |-> "done", k |-> run.k, id |-> 0]

\* sync is called: no mapping is an orphan, the loop over the snippets begins.
SyncStart ==
    /\ gops < MaxOps
    /\ \E p \in Runs :
           /\ runs[p].pc = "idle"
           /\ runs' = [runs EXCEPT ![p] = [pc |-> "lookup", k |-> 1, id |-> 0]]
    /\ gops' = gops + 1
    /\ UNCHANGED <<docs, gistMapping, made, glast, storeVars, mergeVars, raceVars, viewVars>>

\* `const gistId = await this.getSnippetGistId(snippet.id)`
SyncLookup ==
    /\ \E p \in Runs :
           /\ runs[p].pc = "lookup"
           /\ runs' = [runs EXCEPT ![p] =
                         IF getSnippetGistId([gistMapping |-> gistMapping], snippetOf(p)) # NoDoc
                         THEN [@ EXCEPT !.pc = "patch",
                                        !.id = getSnippetGistId([gistMapping |-> gistMapping], snippetOf(p))]
                         ELSE [@ EXCEPT !.pc = "post"]]
    /\ UNCHANGED <<docs, gistMapping, made, glast, gops, storeVars, mergeVars, raceVars,
                   viewVars>>

\* `await axios.patch(...)` of the mapped document
SyncPatch ==
    /\ \E p \in Runs :
           /\ runs[p].pc = "patch"
           /\ docs[runs[p].id] # "absent"
           /\ docs' = [docs EXCEPT ![runs[p].id] = "snippet"]
           /\ runs' = [runs EXCEPT ![p] = nextSnippet(@)]
    /\ UNCHANGED <<gistMapping, made, glast, gops, storeVars, mergeVars, raceVars, viewVars>>

\* `await axios.post(...)`: the remote creates a document
SyncPost ==
    /\ made < MaxDocs
    /\ \E p \in Runs :
           /\ runs[p].pc = "post"
           /\ docs' = [docs EXCEPT ![made + 1] = "snippet"]
           /\ runs' = [runs EXCEPT ![p] = [@ EXCEPT !.pc = "save", !.id = made + 1]]
    /\ made' = made + 1
    /\ UNCHANGED <<gistMapping, glast, gops, storeVars, mergeVars, raceVars, viewVars>>

\* `await this.saveSnippetGistId(snippet.id, response.data.id)`
SyncSave ==
    /\ \E p \in Runs :
           /\ runs[p].pc = "save"
           /\ gistMapping' = [gistMapping EXCEPT ![snippetOf(p)] = runs[p].id]
           /\ runs' = [runs EXCEPT ![p] = nextSnippet(@)]
    /\ UNCHANGED <<docs, made, glast, gops, storeVars, mergeVars, raceVars, viewVars>>

PushNext ==
    \/ SyncStart
    \/ SyncLookup
    \/ SyncPatch
    \/ SyncPost
    \/ SyncSave

PushSpec == PushInit /\ [][PushNext]_vars

(***************************************************************************)
(* Start-up.  The constructor calls initializeStorage and does not wait    *)
(* for it; a store operation that finds `initialized` false calls it again *)
(* (waitForInitialization).  initializeStorage is split where it awaits:   *)
(* the test for folders.json, the write of '[]' to it, the test for        *)
(* snippets.json, the write of '[]' to it; `initialized = true` follows    *)
(* the last of them at once.  The operation is an addFolder or an          *)
(* addSnippet, split at its read, its write and its mirror update.         *)
(***************************************************************************)
Initializers == {"ctor", "op"}

StartInit ==
    /\ \E ff \in BOOLEAN : \E sf \in BOOLEAN :
          /\ storage = [readyStorage EXCEPT !.initialized = FALSE, !.foldersFile = ff,
                                            !.snippetsFile = sf, !.ctor = "checkFolders"]
          /\ folders \in (IF ff THEN {<<>>, <<seedFolder1>>} ELSE {<<>>})
          /\ snippets \in (IF sf THEN {<<>>, <<seedSnippet>>} ELSE {<<>>})
    /\ backup = [shape |-> "absent", data |-> <<>>]
    /\ pre = [folders |-> folders, snippets |-> snippets, backup |-> backup]
    /\ mtime = 3
    /\ lastSync = 3
    /\ now = 4
    /\ ops = 0
    /\ last = noLast
    /\ procs = [p \in Procs |-> idleProc]
    /\ events = 0
    /\ fresh = FALSE
    /\ mirrorBy = "store"
    /\ obs = [folders |-> <<>>, snippets |-> <<>>]
    /\ wholes = {}
    /\ MergeIdle
    /\ GistIdle
    /\ ViewIdle

\* What the store variables other than the files do during start-up.
startPinned ==
    <<mtime, lastSync, now, ops, last, pre, procs, events, fresh, mirrorBy, obs, wholes,
      mergeVars, gistVars, viewVars>>

\* Where the operation goes on once its waitForInitialization returns.
firstRead(kind) == IF kind = "addFolder" THEN "readFolders" ELSE "readSnippets"

\* initializeStorage has passed its last await: `this.initialized = true`,
\* and the caller goes on.
initDone(p) ==
    IF p = "ctor"
    THEN [storage EXCEPT !.initialized = TRUE, !.ctor = "done"]
    ELSE [storage EXCEPT !.initialized = TRUE, !.op = firstRead(storage.kind)]

\* `if (!await this.fileExists(foldersPath))`
InitCheckFolders ==
    /\ \E p \in Initializers :
           /\ storage[p] = "checkFolders"
           /\ storage' = [storage EXCEPT ![p] = IF storage.foldersFile THEN "checkSnippets"
                                                ELSE "writeFolders"]
    /\ UNCHANGED <<folders, snippets, backup, startPinned>>

\* `await fs.promises.writeFile(foldersPath, '[]')`
InitWriteFolders ==
    /\ \E p \in Initializers :
           /\ storage[p] = "writeFolders"
           /\ storage' = [storage EXCEPT ![p] = "checkSnippets", !.foldersFile = TRUE]
    /\ folders' = <<>>
    /\ UNCHANGED <<snippets, backup, startPinned>>

\* `if (!await this.fileExists(snippetsPath))`
InitCheckSnippets ==
    /\ \E p \in Initializers :
           /\ storage[p] = "checkSnippets"
           /\ storage' = IF storage.snippetsFile THEN initDone(p)
                         ELSE [storage EXCEPT ![p] = "writeSnippets"]
    /\ UNCHANGED <<folders, snippets, backup, startPinned>>

\* `await fs.promises.writeFile(snippetsPath, '[]')`
InitWriteSnippets ==
    /\ \E p \in Initializers :
           /\ storage[p] = "writeSnippets"
           /\ storage' = [initDone(p) EXCEPT !.snippetsFile = TRUE]
    /\ snippets' = <<>>
    /\ UNCHANGED <<folders, backup, startPinned>>

\* The first store operation is called: waitForInitialization.
OpStart ==
    /\ storage.op = "idle"
    /\ \E kind \in {"addFolder", "addSnippet"} :
           storage' = [storage EXCEPT !.kind = kind,
                                      !.op = IF storage.initialized THEN firstRead(kind)
                                             ELSE "checkFolders"]
    /\ UNCHANGED <<folders, snippets, backup, startPinned>>

\* addFolder: `await this.getFoldersData()`
OpReadFolders ==
    /\ storage.op = "readFolders"
    /\ storage' = [storage EXCEPT !.op = "writeFolders2", !.fs = folders]
    /\ UNCHANGED <<folders, snippets, backup, startPinned>>

\* addFolder: `await this.saveFoldersData(folders)`
OpWriteFolders ==
    /\ storage.op = "writeFolders2"
    /\ folders' = addFolder(storage.fs, "a", Null, now)
    /\ storage' = [storage EXCEPT !.op = "mirror", !.foldersFile = TRUE,
                                  !.wrote = @ \cup {"folders"}]
    /\ UNCHANGED <<snippets, backup, startPinned>>

\* addSnippet: `await this.getSnippets()`
OpReadSnippets ==
    /\ storage.op = "readSnippets"
    /\ storage' = [storage EXCEPT !.op = "writeSnippets2",
                                  !.sn = getSnippetsData(snippets, now)]
    /\ UNCHANGED <<folders, snippets, backup, startPinned>>

\* addSnippet: `await this.saveSnippetsData(snippets)`
OpWriteSnippets ==
    /\ storage.op = "writeSnippets2"
    /\ snippets' = saveSnippetsData(addSnippet(storage.sn, "a", 1, now), now)
    /\ storage' = [storage EXCEPT !.op = "mirror", !.snippetsFile = TRUE,
                                  !.wrote = @ \cup {"snippets"}]
    /\ UNCHANGED <<folders, backup, startPinned>>

\* The other collection is read and the mirror written (updateBackupFile).
OpWriteMirror ==
    /\ storage.op = "mirror"
    /\ backup' = mirror(folders, snippets)
    /\ storage' = [storage EXCEPT !.op = "done"]
    /\ UNCHANGED <<folders, snippets, startPinned>>

StartNext ==
    \/ InitCheckFolders
    \/ InitWriteFolders
    \/ InitCheckSnippets
    \/ InitWriteSnippets
    \/ OpStart
    \/ OpReadFolders
    \/ OpWriteFolders
    \/ OpReadSnippets
    \/ OpWriteSnippets
    \/ OpWriteMirror

StartSpec == StartInit /\ [][StartNext]_vars

----
\* What the claims about a merge speak of.

\* The lastModified a collection holds for an id; NoTime when it holds none.
lastModifiedOf(s, id) == IF mapHas(s, id) THEN mapGet(s, id).lastModified ELSE NoTime

max(a, b) == IF a >= b THEN a ELSE b

\* The records the merge applied in this state was given.
givenLocal ==
    IF mOp \in {"mergeSnippets", "importSnippets", "selfSnippets"}
    THEN localSnippets ELSE localFolders

givenIncoming ==
    CASE mOp \in {"mergeSnippets", "importSnippets"} -> incomingSnippets
      [] mOp = "selfFolders" -> localFolders
      [] mOp = "selfSnippets" -> localSnippets
      [] OTHER -> incomingFolders

bothSides == idsOfSeq(givenLocal) \cap idsOfSeq(givenIncoming)

\* C1: in mergeFolders and mergeSnippets, for an id on both sides with a
\* lastModified on both sides, the result holds the incoming record if its
\* lastModified is strictly greater and the local record otherwise (also on a tie).
C1_LastWriteWins ==
    mOp \in {"mergeFolders", "mergeSnippets"} =>
        \A id \in bothSides :
            LET l == mapGet(givenLocal, id)
                n == mapGet(givenIncoming, id)
            IN  (l.lastModified # NoTime /\ n.lastModified # NoTime) =>
                    mapGet(mResult, id) = IF n.lastModified > l.lastModified THEN n ELSE l

C1_Witness ==
    /\ mOp = "mergeSnippets"
    /\ \E id \in bothSides :
          /\ mapGet(givenLocal, id).lastModified = mapGet(givenIncoming, id).lastModified
          /\ mapGet(givenLocal, id).lastModified # NoTime
          /\ mapGet(mResult, id) = mapGet(givenLocal, id)
    /\ \E id \in bothSides :
          /\ mapGet(givenIncoming, id).lastModified > mapGet(givenLocal, id).lastModified
          /\ mapGet(givenLocal, id).lastModified # NoTime
          /\ mapGet(mResult, id) = mapGet(givenIncoming, id)

\* C2: the ids of a merge's result (mergeFolders, mergeSnippets, the merge of
\* importData) are exactly the ids of local united with the ids of incoming.
C2_MergeIsUnion ==
    mOp \in {"mergeFolders", "mergeSnippets", "importFolders", "importSnippets"} =>
        idsOfSeq(mResult) = idsOfSeq(givenLocal) \cup idsOfSeq(givenIncoming)

C2_Witness ==
    /\ mOp = "importFolders"
    /\ idsOfSeq(givenLocal) \ idsOfSeq(givenIncoming) # {}
    /\ idsOfSeq(givenIncoming) \ idsOfSeq(givenLocal) # {}
    /\ idsOfSeq(mResult) = idsOfSeq(givenLocal) \cup idsOfSeq(givenIncoming)

allStamped(s) == \A i \in 1..Len(s) : s[i].lastModified # NoTime

\* C6 as stated: merge(X, X) equals X for every collection X, also one that
\* holds records without a lastModified.
C6_IdempotentAsStated ==
    mOp \in {"selfFolders", "selfSnippets"} => mResult = givenLocal

\* C6 as amended: for a collection X of records with pairwise distinct ids that
\* all carry a lastModified, merge(X, X) equals X; a record without a
\* lastModified comes back in place, unchanged but for a lastModified set to a
\* clock reading taken during the merge.
C6_IdempotentOnStamped ==
    mOp \in {"selfFolders", "selfSnippets"} =>
        /\ allStamped(givenLocal) => mResult = givenLocal
        /\ Len(mResult) = Len(givenLocal)
        /\ \A i \in 1..Len(givenLocal) :
              IF givenLocal[i].lastModified # NoTime
              THEN mResult[i] = givenLocal[i]
              ELSE \E t \in mT1..mT2 :
                      mResult[i] = [givenLocal[i] EXCEPT !.lastModified = t]

C6_Witness ==
    /\ mOp = "selfSnippets"
    /\ Len(givenLocal) = MaxLen
    /\ allStamped(givenLocal)
    /\ mResult = givenLocal

\* C7: in every merge (mergeFolders, mergeSnippets, the merge of importData and
\* LocalStorage.syncFromBackup), for every id present in either input the
\* lastModified the result holds for it is at least the larger of the
\* lastModified values the two inputs hold for it.
C7_MergeIsMonotonic ==
    mOp # "init" =>
        \A id \in idsOfSeq(givenLocal) \cup idsOfSeq(givenIncoming) :
            lastModifiedOf(mResult, id) >=
                max(lastModifiedOf(givenLocal, id), lastModifiedOf(givenIncoming, id))

\* C8: in a merge (mergeFolders, mergeSnippets, LocalStorage.syncFromBackup) a
\* record without a lastModified counts as stamped with the time of the merge:
\* it loses to a counterpart whose real timestamp is later than the merge, and
\* against a counterpart that has no timestamp either the record kept for the
\* id carries the time of the merge.
C8_MissingIsTimeOfMerge ==
    mOp \in {"mergeFolders", "mergeSnippets", "syncFromBackup"} =>
        \A id \in bothSides :
            LET l == mapGet(givenLocal, id)
                n == mapGet(givenIncoming, id)
                r == mapGet(mResult, id)
            IN  /\ (l.lastModified = NoTime /\ n.lastModified > mT2) => r.name = n.name
                /\ (n.lastModified = NoTime /\ l.lastModified > mT2) => r.name = l.name
                /\ (l.lastModified = NoTime /\ n.lastModified = NoTime) =>
                       r.lastModified \in mT1..mT2

----
\* What the claims about the store speak of.

Range(s) == {s[i] : i \in 1..Len(s)}

\* The flows that bring records in from a file or from the gist.
PullFlows == {"importCommand", "syncFromBackup", "autoSync", "syncFromGist"}

\* C3: after an import or pull flow (the import command, the sync-from-backup
\* command, the automatic absorption of the backup mirror, the pull from the
\* gist) every record that was in the store before the flow and is absent
\* from the incoming data is still in the store.
C3_PullFlowsMerge ==
    last.op \in PullFlows =>
        /\ idsOfSeq(pre.folders) \ last.inFolders \subseteq idsOfSeq(folders)
        /\ idsOfSeq(pre.snippets) \ last.inSnippets \subseteq idsOfSeq(snippets)

\* C4: every snippet in the store has a folderId that is the id of a folder
\* in the store, after any sequence of handlers (a handler is one step, so no
\* state lies inside a cascading deleteFolder).
C4_NoDanglingFolderReferences ==
    \A i \in 1..Len(snippets) : snippets[i].folderId \in idsOfSeq(folders)

\* C5: deleteFolder(f) removes, in one operation, the folder with id f and
\* every snippet whose folderId is f, and no other folder or snippet: what
\* the store holds afterwards is exactly the records it held before that are
\* neither.
C5_CascadingDelete ==
    last.op = "deleteFolder" =>
        /\ \A f \in Range(folders) : f.id # last.id
        /\ \A sn \in Range(snippets) : sn.folderId # last.id
        /\ Range(folders) = {f \in Range(pre.folders) : f.id # last.id}
        /\ Range(snippets) = {sn \in Range(pre.snippets) : sn.folderId # last.id}
        /\ Len(folders) = Cardinality({i \in 1..Len(pre.folders) : pre.folders[i].id # last.id})
        /\ Len(snippets) =
              Cardinality({i \in 1..Len(pre.snippets) : pre.snippets[i].folderId # last.id})

C5_Witness ==
    /\ last.op = "deleteFolder"
    /\ \E sn \in Range(pre.snippets) : sn.folderId = last.id
    /\ \E sn \in Range(pre.snippets) : sn.folderId # last.id
    /\ \E f \in Range(pre.folders) : f.id # last.id
    /\ Len(snippets) < Len(pre.snippets)
    /\ Len(folders) < Len(pre.folders)

\* C9: across one store operation, and so across any sequence of them, the
\* lastModified the store holds for a record id does not decrease (compared
\* where the store holds a lastModified for the id before and after).
C9_LastModifiedNeverDecreases ==
    /\ \A f \in Range(pre.folders) : \A g \in Range(folders) :
          (f.id = g.id /\ f.lastModified # NoTime /\ g.lastModified # NoTime) =>
              g.lastModified >= f.lastModified
    /\ \A sn \in Range(pre.snippets) : \A r \in Range(snippets) :
          (sn.id = r.id /\ sn.lastModified # NoTime /\ r.lastModified # NoTime) =>
              r.lastModified >= sn.lastModified

\* C10: after a field-level mutation of an existing record (renameFolder,
\* renameSnippet, updateSnippet, moveFolder, updateFolderParent, and an
\* updateFolderOrder that moved the folder) the record's lastModified is the
\* time of the mutation.
C10_MutationSetsLastModified ==
    /\ last.op \in {"renameFolder", "moveFolder", "updateFolderParent", "updateFolderOrder"} =>
          mapGet(folders, last.id).lastModified = last.t
    /\ last.op \in {"renameSnippet", "updateSnippet"} =>
          mapGet(snippets, last.id).lastModified = last.t

\* The parentId links followed k times from a folder id (Null once the root
\* or a missing folder is reached).
RECURSIVE ancestor(_, _, _)
ancestor(fs, id, k) ==
    IF k = 0 THEN id
    ELSE LET a == ancestor(fs, id, k - 1)
         IN  IF a # Null /\ mapHas(fs, a) THEN mapGet(fs, a).parentId ELSE Null

\* C11: the folder parent graph is acyclic in every reachable state: no folder
\* is its own ancestor through parentId links.
C11_ParentGraphAcyclic ==
    \A i \in 1..Len(folders) : \A k \in 1..Len(folders) :
        ancestor(folders, folders[i].id, k) # folders[i].id

\* The handlers that write the store: the mutations and the callers of
\* syncData.
StoreWriters ==
    {"addFolder", "addSnippet", "deleteFolder", "deleteSnippet", "updateSnippet",
     "renameFolder", "renameSnippet", "moveFolder", "updateFolderParent",
     "updateFolderOrder", "importCommand", "syncFromBackup", "autoSync",
     "syncFromGist", "syncFromBackupMerge", "importData"}

mirrorFolders == SelectSeq(backup.data, isFolderItem)

mirrorSnippets == SelectSeq(backup.data, LAMBDA item : ~isFolderItem(item))

\* C14: after a mutation or a syncData has completed (the backup folder being
\* configured and writable) the mirror file is an envelope that holds the
\* whole collection: the folders of the store, in order, each with its id,
\* name and parentId, and the snippets of the store, in order, each with its
\* id, name, folderId, code, language, notes and tags; and nothing else.
C14_MirrorHoldsCollection ==
    last.op \in StoreWriters =>
        /\ backup.shape = "envelope"
        /\ Len(mirrorFolders) = Len(folders)
        /\ Len(mirrorSnippets) = Len(snippets)
        /\ \A i \in 1..Len(folders) :
              /\ mirrorFolders[i].id = folders[i].id
              /\ mirrorFolders[i].name = folders[i].name
              /\ mirrorFolders[i].parentId = folders[i].parentId
        /\ \A i \in 1..Len(snippets) :
              /\ mirrorSnippets[i].id = snippets[i].id
              /\ mirrorSnippets[i].name = snippets[i].name
              /\ mirrorSnippets[i].folderId = snippets[i].folderId
              /\ mirrorSnippets[i].code = snippets[i].code
              /\ mirrorSnippets[i].language = snippets[i].language
              /\ mirrorSnippets[i].notes = snippets[i].notes
              /\ mirrorSnippets[i].tags = snippets[i].tags

C14_Witness ==
    /\ last.op = "updateSnippet"
    /\ pre.backup.shape = "junk"
    /\ Len(folders) > 0
    /\ Len(mirrorSnippets) = Len(snippets)
    /\ \E i \in 1..Len(snippets) :
          snippets[i].code = "x" /\ mirrorSnippets[i].code = "x"

\* C18: absorbing the mirror file (autoSyncFromBackup, LocalStorage.
\* syncFromBackup) keeps the two kinds apart: afterwards every folder of the
\* file and of the prior store is in the folders collection and every snippet
\* of the file and of the prior store is in the snippets collection.
C18_AbsorbKeepsKinds ==
    last.op \in {"autoSync", "syncFromBackupMerge"} =>
        /\ idsOfSeq(pre.folders) \cup last.inFolders \subseteq idsOfSeq(folders)
        /\ idsOfSeq(pre.snippets) \cup last.inSnippets \subseteq idsOfSeq(snippets)

\* C19: an import whose data holds a record without an id (the import command,
\* LocalStorage.importData, the absorption of the mirror) is rejected as a
\* whole: the store is what it was before.
C19_IdlessImportRejected ==
    (/\ last.op \in {"importCommand", "importData", "importDataThrew", "autoSync",
                     "syncFromBackupMerge"}
     /\ NoId \in last.inFolders \cup last.inSnippets) =>
        /\ folders = pre.folders
        /\ snippets = pre.snippets

\* C20: when the mirror file is malformed (no JSON, or JSON of another shape
\* than the envelope) autoSyncFromBackup leaves both collection files exactly
\* as they were.
C20_MalformedMirrorSkipped ==
    (last.op \in {"autoSync", "autoSyncThrew"} /\ pre.backup.shape # "envelope") =>
        /\ folders = pre.folders
        /\ snippets = pre.snippets

\* C12: a getAllData that overlaps a replacement of the whole collection
\* returns a collection the store held as a whole, before or after a
\* replacement, never the folders of one and the snippets of another.
C12_ReplaceAllIsAtomicForReaders ==
    procs["reader"].pc = "done" => obs \in wholes

\* The snippet the user's addSnippet has created (its id is the time of the call).
userSnippetId == now

\* C13: a mutation whose write was overwritten by an overlapping, staler
\* writer is in the canonical store again once the next merge has run, that
\* is one started after the mutation and every overlapping writer had
\* finished their writes.
C13_OverwrittenMutationComesBack ==
    \A p \in Absorbers :
        (procs[p].pc = "setLastSync" /\ procs[p].after) =>
            userSnippetId \in idsOfSeq(snippets)

\* C15: a watcher event on a mirror file whose content the store itself has
\* just written performs no merge and no write: the absorption it starts
\* never gets to write the collection files or the mirror.
C15_SelfTriggeredWritesSkipped ==
    \A p \in Absorbers :
        procs[p].self => procs[p].pc \notin {"writeSnippets", "writeMirror", "setLastSync"}

\* No absorption is running and no watcher event waits to start one.
quiescent ==
    /\ events = 0
    /\ \A p \in Absorbers : procs[p].pc = "idle"

\* C16: after one mutation or one external edit of the mirror, with no
\* further user or external action, the chain of watcher-triggered
\* absorptions and mirror writes ends: from some point on no absorption runs
\* and none is triggered.
C16_AbsorptionChainTerminates ==
    <>[]quiescent

\* How many times another writer has replaced the mirror (every budgeted
\* step but the user's one mutation is such a write).
externalWrites == ops - (IF procs["user"].pc = "idle" THEN 0 ELSE 1)

\* Nothing runs and nothing is pending: no further step is taken without a
\* new user or external action.
settled ==
    /\ quiescent
    /\ procs["user"].pc \in {"idle", "done"}

\* C17: every external modification that leaves the mirror well-formed is
\* merged into the canonical store by the time the handlers it triggers have
\* run to completion, also when it lands during an absorption or a mutation.
C17_ExternalEditIsAbsorbed ==
    (externalWrites > 0 /\ settled) =>
        /\ 6 \in idsOfSeq(folders)
        /\ 7 \in idsOfSeq(snippets)

\* Whether the change the last handler was asked for is in the canonical store.
changePresent ==
    CASE last.op = "addFolder" -> mapHas(folders, last.id)
      [] last.op = "addSnippet" -> mapHas(snippets, last.id)
      [] last.op = "deleteFolder" ->
             /\ ~mapHas(folders, last.id)
             /\ \A i \in 1..Len(snippets) : snippets[i].folderId # last.id
      [] last.op = "deleteSnippet" -> ~mapHas(snippets, last.id)
      [] last.op = "updateSnippet" ->
             /\ mapGet(snippets, last.id).code = "x"
             /\ mapGet(snippets, last.id).lastModified = last.t
      [] last.op = "renameFolder" -> mapGet(folders, last.id).name = "b"
      [] last.op = "renameSnippet" -> mapGet(snippets, last.id).name = "b"
      [] last.op \in {"updateFolderParent", "moveFolder"} ->
             /\ mapGet(folders, last.id).parentId = Null
             /\ mapGet(folders, last.id).lastModified = last.t
      [] last.op = "updateFolderOrder" ->
             \E direction \in {"up", "down"} :
                 /\ canMove(pre.folders, last.id, direction)
                 /\ folders = updateFolderOrder(pre.folders, last.id, direction)
      [] OTHER -> FALSE

\* C21: when the mirror cannot be written, every mutation still completes
\* without throwing and its change is in the canonical store.
C21_MirroringIsBestEffort ==
    last.fault = "mirror" => (~last.threw /\ changePresent)

\* A folder with a snippet in it has been deleted while the mirror could not
\* be written: both collections changed, the mirror did not.
C21_Witness ==
    /\ last.fault = "mirror"
    /\ last.op = "deleteFolder"
    /\ Len(snippets) < Len(pre.snippets)
    /\ Len(folders) < Len(pre.folders)
    /\ backup = pre.backup

\* C22: a handler that throws because a collection file cannot be read,
\* parsed or written has changed neither folders.json nor snippets.json.
C22_FailedOperationWritesNothing ==
    last.threw =>
        /\ folders = pre.folders
        /\ snippets = pre.snippets

\* The last call was a push that no fault struck.
cleanPush == glast.op = "sync" /\ glast.fault.kind = "none"

\* The requests of the last call with this method that the remote fulfilled.
fulfilled(method) ==
    {i \in 1..Len(glast.log) : glast.log[i].method = method /\ glast.log[i].status = 200}

\* The snippets of the last push that had no mapping, and those whose mapped
\* document the remote still held.
unmappedBefore == {s \in glast.local : glast.pre.gistMapping[s] = NoDoc}

presentBefore ==
    {s \in glast.local : /\ glast.pre.gistMapping[s] # NoDoc
                         /\ glast.pre.docs[glast.pre.gistMapping[s]] # "absent"}

\* C23: a push creates exactly one remote document and one mapping for a
\* snippet that had no mapping, and for a snippet whose mapped document is
\* still there it updates that document and creates nothing.
C23_PushCreatesOnceThenUpdates ==
    cleanPush =>
        /\ glast.error = "none"
        /\ \A s \in unmappedBefore :
               /\ gistMapping[s] # NoDoc
               /\ glast.pre.docs[gistMapping[s]] = "absent"
               /\ docs[gistMapping[s]] = "snippet"
               /\ \A t \in glast.local \ {s} : gistMapping[t] # gistMapping[s]
        /\ \A s \in presentBefore :
               /\ gistMapping[s] = glast.pre.gistMapping[s]
               /\ \E i \in fulfilled("patch") : glast.log[i].doc = gistMapping[s]
        /\ Cardinality(fulfilled("post")) = Cardinality(glast.local \ presentBefore)
        /\ Cardinality({d \in DocIds : docs[d] # "absent" /\ glast.pre.docs[d] = "absent"})
               = Cardinality(glast.local \ presentBefore)

\* A second push: one snippet is pushed again with its document still there,
\* another is pushed for the first time.
C23_Witness ==
    /\ cleanPush
    /\ presentBefore # {}
    /\ unmappedBefore # {}

\* C24: in every state reached by pushes, pulls and deleteSnippetGist no two
\* snippet ids are mapped to the same remote document (a snippet id has at
\* most one document, the mapping being keyed by snippet id), and after a
\* push that did not throw every local snippet has its mapping.
C24_MappingIsOneToOne ==
    /\ \A s, t \in Ids :
           (s # t /\ gistMapping[s] # NoDoc) => gistMapping[s] # gistMapping[t]
    /\ (glast.op = "sync" /\ glast.error = "none") =>
           \A s \in glast.local : gistMapping[s] # NoDoc

\* Two snippets pushed, one of them for the second time.
C24_Witness ==
    /\ glast.op = "sync"
    /\ glast.error = "none"
    /\ Cardinality(glast.local) > 1
    /\ presentBefore # {}
    /\ \A s \in glast.local : gistMapping[s] # NoDoc

\* C25: after a push, every mapping of a snippet that is not in the local
\* collection is gone together with its remote document, and no mapping has
\* been removed while its remote document still exists.
C25_OrphanPruning ==
    glast.op = "sync" =>
        \A s \in Ids :
            LET d == glast.pre.gistMapping[s]
            IN  /\ (d # NoDoc /\ s \notin glast.local /\ glast.error = "none") =>
                       (gistMapping[s] = NoDoc /\ docs[d] = "absent")
                /\ (d # NoDoc /\ gistMapping[s] = NoDoc) => docs[d] = "absent"

\* The snippets of the last push whose mapped document the remote no longer
\* held.
missingBefore ==
    {s \in glast.local : /\ glast.pre.gistMapping[s] # NoDoc
                         /\ glast.pre.docs[glast.pre.gistMapping[s]] = "absent"}

\* C26: when the remote answers not-found for the mapped document of a
\* snippet, push creates a new document for it, and after the push the
\* mapping of the snippet is the new document and not the old one.
C26_RecreateOnMissingDocument ==
    cleanPush =>
        /\ glast.error = "none"
        /\ \A s \in missingBefore :
               /\ \E i \in 1..Len(glast.log) :
                      /\ glast.log[i] = request("patch", glast.pre.gistMapping[s], 404)
                      /\ i < Len(glast.log)
                      /\ glast.log[i + 1] = request("post", gistMapping[s], 200)
               /\ gistMapping[s] # NoDoc
               /\ gistMapping[s] # glast.pre.gistMapping[s]
               /\ docs[gistMapping[s]] = "snippet"

\* A push found the mapped document of one of its snippets gone.
C26_Witness ==
    /\ cleanPush
    /\ missingBefore # {}
    /\ \E i \in 1..Len(glast.log) : glast.log[i].status = 404

\* The requests of the last call that the remote refused for the credential.
refused == {i \in 1..Len(glast.log) : glast.log[i].status = 401}

\* C27: when a request of a push or of a pull is refused for the credential,
\* the call stops with the invalid-or-expired-credential error, makes no
\* further request, and changes no mapping because of the refused request.
C27_AuthenticationFailureIsFatal ==
    (glast.op \in {"sync", "load", "loadNull"} /\ refused # {}) =>
        /\ glast.error = "GitHub token is invalid or expired"
        /\ refused = {Len(glast.log)}
        /\ \A s \in Ids :
               (glast.pre.gistMapping[s] # NoDoc
                   /\ glast.log[Len(glast.log)].doc = glast.pre.gistMapping[s]) =>
                   gistMapping[s] = glast.pre.gistMapping[s]

\* The status the last call got when it fetched document d, 0 when it did not
\* fetch it.
fetched(d) ==
    IF \E i \in 1..Len(glast.log) : glast.log[i].method = "get" /\ glast.log[i].doc = d
    THEN glast.log[CHOOSE i \in 1..Len(glast.log) :
                       glast.log[i].method = "get" /\ glast.log[i].doc = d].status
    ELSE 0

C29_MirrorRoundTrip ==
    last.op \in StoreWriters =>
        /\ getBackupData(backup) = [folders |-> folders, snippets |-> snippets]
        /\ autoSyncParse(backup) = [folders |-> folders, snippets |-> snippets]

Readers == {"importParse", "autoSyncParse", "syncCommandParse", "getBackupData"}

\* The folders and the snippets a file holds: a record with a folderId is a
\* snippet, any other a folder.
fileFolderIds ==
    {mLocal.data[i].id : i \in {j \in 1..Len(mLocal.data) : "folderId" \notin DOMAIN mLocal.data[j]}}

fileSnippetIds ==
    {mLocal.data[i].id : i \in {j \in 1..Len(mLocal.data) : "folderId" \in DOMAIN mLocal.data[j]}}

\* C30: every reader of a collection file finds the folders and the snippets
\* of the file whichever of the three shapes the file has (the versioned
\* envelope, the {folders, snippets} object the export command writes, the
\* bare array).
C30_EveryShapeIsRead ==
    mOp \in Readers =>
        /\ idsOfSeq(mResult.folders) = fileFolderIds
        /\ idsOfSeq(mResult.snippets) = fileSnippetIds

\* The terms of a query as the search is described: the maximal runs of
\* characters that are not white space, lower-cased.
termsOf(query) ==
    SelectSeq(splitOn(toLowerCase(query), {" ", "\t"}, <<>>), LAMBDA term : term # <<>>)

fieldsOf(snippet) ==
    {snippet.name, snippet.notes, snippet.code}
        \cup (IF snippet.hasTags THEN snippet.tags ELSE {})

\* C31: a snippet matches the query exactly when every white-space separated
\* term of the query is, without regard to case, a substring of the snippet's
\* name, of one of its tags, of its notes or of its code.
C31_SnippetSearchIsAndOfTerms ==
    vop = "snippetMatchesSearch" =>
        (shown.matches <=>
            \A k \in 1..Len(termsOf(searchQuery)) :
                \E field \in fieldsOf(shown.item) :
                    includes(toLowerCase(field), termsOf(searchQuery)[k]))

\* C32: with an active query a folder matches exactly when every white-space
\* separated term of the query is a substring of the folder's lower-cased
\* name, in whatever order the terms are given.
C32_FolderSearchIsAndOfTerms ==
    (vop = "folderMatchesSearch" /\ searchQuery # <<>>) =>
        (shown.matches <=>
            \A k \in 1..Len(termsOf(searchQuery)) :
                includes(toLowerCase(shown.item.name), termsOf(searchQuery)[k]))

\* C33: opening the tree from the root never shows a folder below itself: the
\* chain of folders opened from the root holds no folder twice.
C33_TreeProjectionIsCycleFree ==
    \A i \in 1..Len(path) : \A j \in 1..Len(path) : i # j => path[i] # path[j]

\* No loadData call and no refresh() is in flight.
noPendingRefresh == \A p \in Loaders : loads[p].pc = "idle"

\* C38: once every pending refresh has completed, the provider's copy of the
\* folders and snippets is the store's content.
C38_RefreshIsNeverLost ==
    noPendingRefresh =>
        /\ treeFolders = folders
        /\ idsOfSeq(treeSnippets) = idsOfSeq(snippets)

\* C34: a read of the snippets writes nothing, and two reads one after the
\* other, with no write between them, return equal snippet records, also for
\* a stored snippet without lastModified.
C34_ReadSanitizationIsStable ==
    (last.op \in {"getSnippets", "getAllData"} /\ ops = 2) =>
        /\ snippets = pre.snippets
        /\ obs.snippets = mResult.snippets

\* The ids of the records of a store are pairwise distinct.
pairwiseDistinct(fs, snips) ==
    LET all == fs \o snips
    IN  \A i \in 1..Len(all) : \A j \in 1..Len(all) : i # j => all[i].id # all[j].id

\* C35: a record created in a store whose ids are pairwise distinct has an id
\* no other record has, and its lastModified is the time of its creation.
C35_CreatedRecordsHaveFreshIds ==
    (last.op \in {"addFolder", "addSnippet"} /\ pairwiseDistinct(pre.folders, pre.snippets)) =>
        /\ pairwiseDistinct(folders, snippets)
        /\ last.op = "addFolder" => folders[Len(folders)].lastModified = last.t
        /\ last.op = "addSnippet" => snippets[Len(snippets)].lastModified = last.t

\* C36: after a push of the store, pulling and merging what was pulled leaves
\* every folder and every snippet of the store as it was.
C36_PushPullMergeIsNoOp ==
    (last.op = "pullAndMerge" /\ gops > 0) =>
        /\ snippets = pre.snippets
        /\ folders = pre.folders

\* Two sync calls were made and both have returned.
bothPushed == \A p \in Runs : runs[p].pc = "done"

\* C37: when two overlapping pushes of the same snippets have finished, every
\* document on the remote is the document of a snippet in the mapping: none
\* was created twice for a snippet and left behind.
C37_OverlappingPushesDoNotLeak ==
    bothPushed =>
        \A d \in DocIds : docs[d] # "absent" => \E sid \in Ids : gistMapping[sid] = d

\* C39: a collection file the store operation has written is not emptied by
\* an initializeStorage afterwards: it still holds the record the operation
\* wrote.
C39_InitializationNeverDestroysData ==
    /\ "folders" \in storage.wrote => folders # <<>>
    /\ "snippets" \in storage.wrote => snippets # <<>>

\* The ids of the folders below parentId, ordered by their order key.
siblingIds(fs, parentId) ==
    LET sib == siblingsOf(fs, parentId)
    IN  [p \in 1..Len(sib) |-> fs[sib[p]].id]

\* seq with its elements at positions p and q exchanged
exchanged(seq, p, q) ==
    [i \in 1..Len(seq) |-> IF i = p THEN seq[q] ELSE IF i = q THEN seq[p] ELSE seq[i]]

\* The folder moved has changed places with its neighbour in the given
\* direction, and the folders of other parents are as they were.
swappedWithNeighbour(before, after, id, direction) ==
    LET parentId == before[indexOf(before, id)].parentId
    IN  /\ siblingIds(after, parentId) =
               exchanged(siblingIds(before, parentId), currentIndex(before, id),
                         targetIndex(before, id, direction))
        /\ Len(after) = Len(before)
        /\ \A i \in 1..Len(before) : before[i].parentId # parentId => after[i] = before[i]

\* C40: updateFolderOrder on a folder that has a neighbour in the direction
\* asked for exchanges the two in the order of their siblings and leaves the
\* other siblings' order and the folders of other parents alone; without such
\* a neighbour it changes nothing.
C40_ReorderSwapsNeighbours ==
    /\ last.op = "updateFolderOrder" =>
           \A direction \in {"up", "down"} :
               (/\ canMove(pre.folders, last.id, direction)
                /\ folders = updateFolderOrder(pre.folders, last.id, direction))
                   => swappedWithNeighbour(pre.folders, folders, last.id, direction)
    /\ last.op = "updateFolderOrderNoMove" => folders = pre.folders

====
